---- MODULE Spec2Model ----
(***************************************************************************)
(* Linear MCP server: the tool registry, the argument validator and the    *)
(* two CallTool request handlers of the repository                         *)
(*   - src/index.ts            one switch with an outer try/catch          *)
(*   - the READ_ONLY_MODE server, whose switch delegates to ToolHandlers   *)
(* with the external Linear client as a nondeterministic collaborator.     *)
(***************************************************************************)
EXTENDS Integers, Sequences, FiniteSets, TLC

VARIABLES
  server,          \* which CallTool handler is registered: "index" | "handlers"
  READ_ONLY_MODE,  \* process.env.LINEAR_MCP_READ_ONLY === "true"
  pc,              \* "idle" | "called" | "replied"
  request,         \* request.params: [name, arguments]
  linear,          \* what the Linear client answers during this call
  calls,           \* external client calls issued by the handler, in order
  response,        \* what the CallTool handler produced
  listed,          \* tools returned to the ListTools request being answered
  spawned,         \* the CLI's child process has its stdin and stdout pipes
  requestId,       \* McpClient.requestId
  responseCallbacks, \* McpClient.responseCallbacks: the ids it has a callback for
  processedData,   \* McpClient.processedData: decoded text not yet split in lines
  stdin,           \* ids of the requests written to the child's stdin, in order
  stdout,          \* bytes the child has written that no data event has carried
  issued,          \* the id each callTool call took, in call order
  written,         \* every line the child has written, in order
  processed,       \* every line the data handler has cut off its buffer, in order
  promises,        \* per request id: the state of the promise callTool returned
  delivered        \* per request id: the responses its callback was called with

serverVars == <<server, READ_ONLY_MODE, pc, request, linear, calls, response, listed>>
cliVars == <<spawned, requestId, responseCallbacks, processedData, stdin, stdout,
             issued, written, processed, promises, delivered>>
vars == <<serverVars, cliVars>>

(***************************************************************************)
(* Bounds of the explored inputs                                           *)
(***************************************************************************)
MaxOptional == 2   \* optional arguments supplied in one request
MaxFaults == 1     \* non-nominal answers of the Linear client in one call
MaxCalls == 2      \* callTool calls of one run of the CLI
MaxLines == 2      \* lines the CLI's child process writes in one run

(***************************************************************************)
(* JSON values of request arguments                                        *)
(***************************************************************************)
Str(s) == [type |-> "string", str |-> s, num |-> 0, bool |-> FALSE]
Num(n) == [type |-> "number", str |-> "", num |-> n, bool |-> FALSE]
Bool(b) == [type |-> "boolean", str |-> "", num |-> 0, bool |-> b]
Arr == [type |-> "array", str |-> "", num |-> 1, bool |-> FALSE]
Undefined == [type |-> "undefined", str |-> "undefined", num |-> 0, bool |-> FALSE]
Null == [type |-> "null", str |-> "null", num |-> 0, bool |-> FALSE]
DateOf(v) == [type |-> "date", str |-> v.str, num |-> 0, bool |-> FALSE]

\* JavaScript truthiness, as used by `if (args.x)` and `a || b`
Truthy(v) ==
  CASE v.type = "string"  -> v.str # ""
    [] v.type = "number"  -> v.num # 0
    [] v.type = "boolean" -> v.bool
    [] v.type = "array"   -> TRUE
    [] v.type = "date"    -> TRUE
    [] OTHER              -> FALSE

\* a || b
FalsyOr(a, b) == IF Truthy(a) THEN a ELSE b
\* a ?? b
NullishOr(a, b) == IF a.type \in {"undefined", "null"} THEN b ELSE a
\* destructuring default: { x = d } = args
DefaultOf(a, d) == IF a.type = "undefined" THEN d ELSE a

\* args.field ; a missing property reads as undefined
Arg(args, f) == IF f \in DOMAIN args THEN args[f] ELSE Undefined

\* `${value}` inside a template literal
Show(v) == IF v.type \in {"string", "undefined", "null"} THEN v.str ELSE "<value>"

NoData == [k \in {} |-> Undefined]
Obj1(k, v) == [x \in {k} |-> v]

\* Object literal restricted to the keys that are set
Only(keys, f) == [k \in keys |-> f[k]]

Min(a, b) == IF a < b THEN a ELSE b
Max(a, b) == IF a > b THEN a ELSE b

SeqToSet(s) == {s[i] : i \in DOMAIN s}

(***************************************************************************)
(* Tool registry                                                           *)
(***************************************************************************)
READ_TOOLS ==
  << "list_issues", "list_teams", "get_team", "list_projects", "get_project",
     "search_issues", "get_issue", "list_roadmaps", "get_roadmap",
     "get_initiative", "get_comment", "list_labels", "get_label",
     "list_cycles", "get_cycle", "list_documents", "get_document",
     "list_users", "get_user", "me" >>

WRITE_TOOLS ==
  << "create_issue", "update_issue", "create_comment", "update_comment",
     "delete_comment", "create_label", "update_label", "create_cycle",
     "update_cycle", "create_document", "update_document" >>

\* a tools list that also advertises the name the CLI sends for initiatives
IndexToolsAndInitiatives ==
  << "list_issues", "get_issue", "list_teams", "list_initiatives" >>

\* tools: [...] of the ListTools handler of src/index.ts
IndexTools ==
  << "create_issue", "list_issues", "update_issue", "get_issue",
     "search_issues", "list_teams", "get_team", "list_projects",
     "get_project", "list_roadmaps", "get_roadmap", "get_initiative",
     "create_comment", "get_comment", "update_comment", "delete_comment",
     "list_labels", "get_label", "create_label", "update_label",
     "list_cycles", "get_cycle", "create_cycle", "update_cycle",
     "list_documents", "get_document", "create_document", "update_document",
     "list_users", "get_user", "me" >>

\* case labels of the switch in src/index.ts
IndexCases ==
  { "create_issue", "list_issues", "update_issue", "list_teams",
    "list_projects", "search_issues", "get_issue", "list_roadmaps",
    "get_initiative", "create_comment", "get_comment", "update_comment",
    "delete_comment", "list_labels", "create_label", "update_label",
    "list_cycles", "create_cycle", "update_cycle", "list_documents",
    "create_document", "update_document", "list_users", "get_user", "me",
    "get_team", "get_project", "get_roadmap", "get_label", "get_cycle",
    "get_document" }

\* case labels of the switch of the READ_ONLY_MODE server
HandlerCases ==
  { "create_issue", "list_issues", "get_issue", "search_issues",
    "update_issue", "list_teams", "get_team", "list_projects", "get_project",
    "list_roadmaps", "get_roadmap", "get_initiative", "create_comment",
    "get_comment", "update_comment", "delete_comment", "list_labels",
    "get_label", "create_label", "update_label", "list_cycles", "get_cycle",
    "create_cycle", "update_cycle", "list_documents", "get_document",
    "create_document", "update_document", "list_users", "get_user", "me" }

\* the tools the README lists as provided
ReadmeTools ==
  { "create_issue", "list_issues", "update_issue", "list_teams", "list_projects",
    "search_issues", "get_issue", "list_initiatives", "get_initiative" }

\* the names the CLI passes to client.callTool, one per command
CliTools ==
  { "create_issue", "list_issues", "update_issue", "get_issue", "search_issues",
    "list_teams", "list_projects", "list_initiatives", "get_initiative",
    "create_comment", "get_comment", "update_comment", "delete_comment",
    "list_labels", "create_label", "update_label", "list_cycles",
    "create_cycle", "update_cycle", "list_documents", "create_document",
    "update_document", "list_users", "get_user", "me" }

\* names a caller may send; list_initiatives is what the CLI and README use
ToolNames == IndexCases \cup HandlerCases \cup {"list_initiatives"}

\* capabilities.tools of the READ_ONLY_MODE server
availableTools(readOnly) ==
  SeqToSet(READ_TOOLS) \cup (IF ~readOnly THEN SeqToSet(WRITE_TOOLS) ELSE {})

\* inputSchema of the entries of tools: [...] in src/index.ts: the names under
\* `properties` and the `required` list (for list_issues, list_projects and
\* list_roadmaps the properties whose schema field is carried above)
index_inputSchema(tool) ==
  CASE tool = "create_issue" ->
         [properties |-> {"title", "description", "teamId", "assigneeId", "priority", "labels"},
          required |-> {"title", "teamId"}]
    [] tool = "list_issues" ->
         [properties |-> {"teamId", "assigneeId", "status", "priority", "dueDate", "isBlocked", "includeArchived", "first"},
          required |-> {}]
    [] tool = "update_issue" ->
         [properties |-> {"issueId", "title", "description", "status", "assigneeId", "priority"},
          required |-> {"issueId"}]
    [] tool = "get_issue" -> [properties |-> {"issueId"}, required |-> {"issueId"}]
    [] tool = "search_issues" -> [properties |-> {"query", "first"}, required |-> {"query"}]
    [] tool = "get_team" -> [properties |-> {"teamId"}, required |-> {"teamId"}]
    [] tool = "list_projects" ->
         [properties |-> {"first", "after", "teamId", "name", "priority", "hasBlocking"},
          required |-> {}]
    [] tool = "get_project" -> [properties |-> {"projectId"}, required |-> {"projectId"}]
    [] tool = "list_roadmaps" ->
         [properties |-> {"first", "last", "includeArchived", "includeProjects"}, required |-> {}]
    [] tool = "get_roadmap" ->
         [properties |-> {"roadmapId", "includeProjects", "includeArchived"},
          required |-> {"roadmapId"}]
    [] tool = "get_initiative" -> [properties |-> {"initiativeId"}, required |-> {"initiativeId"}]
    [] tool = "create_comment" ->
         [properties |-> {"issueId", "body"}, required |-> {"issueId", "body"}]
    [] tool = "get_comment" -> [properties |-> {"commentId"}, required |-> {"commentId"}]
    [] tool = "update_comment" ->
         [properties |-> {"commentId", "body"}, required |-> {"commentId", "body"}]
    [] tool = "delete_comment" -> [properties |-> {"commentId"}, required |-> {"commentId"}]
    [] tool = "list_labels" -> [properties |-> {"teamId", "first"}, required |-> {}]
    [] tool = "get_label" -> [properties |-> {"labelId"}, required |-> {"labelId"}]
    [] tool = "create_label" ->
         [properties |-> {"teamId", "name", "color", "description"}, required |-> {"teamId", "name"}]
    [] tool = "update_label" ->
         [properties |-> {"labelId", "name", "color", "description"}, required |-> {"labelId"}]
    [] tool = "list_cycles" -> [properties |-> {"teamId", "first"}, required |-> {}]
    [] tool = "get_cycle" ->
         [properties |-> {"cycleId", "includeIssues", "first"}, required |-> {"cycleId"}]
    [] tool = "create_cycle" ->
         [properties |-> {"teamId", "name", "description", "startDate", "endDate"},
          required |-> {"teamId", "name", "startDate", "endDate"}]
    [] tool = "update_cycle" ->
         [properties |-> {"cycleId", "name", "description", "startDate", "endDate"},
          required |-> {"cycleId"}]
    [] tool = "list_documents" -> [properties |-> {"teamId", "first"}, required |-> {}]
    [] tool = "get_document" -> [properties |-> {"documentId"}, required |-> {"documentId"}]
    [] tool = "create_document" ->
         [properties |-> {"title", "content", "teamId", "projectId"},
          required |-> {"title", "content", "teamId"}]
    [] tool = "update_document" ->
         [properties |-> {"documentId", "title", "content"}, required |-> {"documentId"}]
    [] tool = "list_users" -> [properties |-> {"first"}, required |-> {}]
    [] tool = "get_user" -> [properties |-> {"userId"}, required |-> {"userId"}]
    [] OTHER -> [properties |-> {}, required |-> {}]

\* inputSchema of the entries of READ_TOOLS and WRITE_TOOLS
utils_inputSchema(tool) ==
  CASE tool = "list_issues" ->
         [properties |-> {"teamId", "assigneeId", "status", "first"}, required |-> {}]
    [] tool = "get_team" -> [properties |-> {"teamId"}, required |-> {"teamId"}]
    [] tool = "list_projects" -> [properties |-> {"teamId", "first"}, required |-> {}]
    [] tool = "get_project" -> [properties |-> {"projectId"}, required |-> {"projectId"}]
    [] tool = "search_issues" -> [properties |-> {"query", "first"}, required |-> {"query"}]
    [] tool = "get_issue" -> [properties |-> {"issueId"}, required |-> {"issueId"}]
    [] tool = "list_roadmaps" -> [properties |-> {"first"}, required |-> {}]
    [] tool = "get_roadmap" -> [properties |-> {"roadmapId"}, required |-> {"roadmapId"}]
    [] tool = "get_initiative" -> [properties |-> {"initiativeId"}, required |-> {"initiativeId"}]
    [] tool = "get_comment" -> [properties |-> {"commentId"}, required |-> {"commentId"}]
    [] tool = "list_labels" -> [properties |-> {"teamId", "first"}, required |-> {}]
    [] tool = "get_label" -> [properties |-> {"labelId"}, required |-> {"labelId"}]
    [] tool = "list_cycles" -> [properties |-> {"teamId", "first"}, required |-> {}]
    [] tool = "get_cycle" -> [properties |-> {"cycleId"}, required |-> {"cycleId"}]
    [] tool = "list_documents" -> [properties |-> {"teamId", "first"}, required |-> {}]
    [] tool = "get_document" -> [properties |-> {"documentId"}, required |-> {"documentId"}]
    [] tool = "list_users" -> [properties |-> {"first"}, required |-> {}]
    [] tool = "get_user" -> [properties |-> {"userId"}, required |-> {"userId"}]
    [] tool = "create_issue" ->
         [properties |-> {"title", "description", "teamId", "assigneeId", "priority", "labels"},
          required |-> {"title", "teamId"}]
    [] tool = "update_issue" ->
         [properties |-> {"issueId", "title", "description", "status", "assigneeId", "priority", "labels"},
          required |-> {"issueId"}]
    [] tool = "create_comment" ->
         [properties |-> {"issueId", "body"}, required |-> {"issueId", "body"}]
    [] tool = "update_comment" ->
         [properties |-> {"commentId", "body"}, required |-> {"commentId", "body"}]
    [] tool = "delete_comment" -> [properties |-> {"commentId"}, required |-> {"commentId"}]
    [] tool = "create_label" ->
         [properties |-> {"teamId", "name", "color", "description"}, required |-> {"teamId", "name"}]
    [] tool = "update_label" ->
         [properties |-> {"labelId", "name", "color", "description"}, required |-> {"labelId"}]
    [] tool = "create_cycle" ->
         [properties |-> {"teamId", "name", "description", "startDate", "endDate"},
          required |-> {"teamId", "name", "startDate", "endDate"}]
    [] tool = "update_cycle" ->
         [properties |-> {"cycleId", "name", "description", "startDate", "endDate"},
          required |-> {"cycleId"}]
    [] tool = "create_document" ->
         [properties |-> {"title", "content", "teamId", "projectId"},
          required |-> {"title", "content", "teamId"}]
    [] tool = "update_document" ->
         [properties |-> {"documentId", "title", "content"}, required |-> {"documentId"}]
    [] OTHER -> [properties |-> {}, required |-> {}]

(***************************************************************************)
(* Zod schemas.  A schema is the sequence of its fields in declaration     *)
(* order.  list_issues and list_projects of schemas/index.ts declare more  *)
(* filter fields of the same kinds than are listed here.                   *)
(***************************************************************************)
Fld(n, t, r) ==
  [name |-> n, type |-> t, required |-> r, ranged |-> FALSE, min |-> 0, max |-> 0]
\* z.number().min(lo).max(hi).optional()
Ranged(n, lo, hi) ==
  [name |-> n, type |-> "number", required |-> FALSE, ranged |-> TRUE, min |-> lo, max |-> hi]
req(n) == Fld(n, "string", TRUE)
opt(n) == Fld(n, "string", FALSE)
optNum(n) == Fld(n, "number", FALSE)
optBool(n) == Fld(n, "boolean", FALSE)

createIssueSchema ==
  << req("title"), opt("description"), req("teamId"), opt("assigneeId"),
     Ranged("priority", 0, 4), Fld("labels", "array", FALSE) >>
listIssuesSchema ==
  << opt("teamId"), opt("assigneeId"), opt("status"), optNum("first"),
     Ranged("priority", 0, 4), opt("dueDate"), optBool("isBlocked"),
     optBool("includeArchived") >>
schemas_listIssuesSchema ==
  << opt("teamId"), opt("assigneeId"), opt("status"), Ranged("priority", 0, 4),
     opt("dueDate"), optNum("first") >>
updateIssueSchema ==
  << req("issueId"), opt("title"), opt("description"), opt("status"),
     opt("assigneeId"), Ranged("priority", 0, 4), Fld("labels", "array", FALSE) >>
listProjectsSchema ==
  << optNum("first"), opt("after"), opt("teamId"), opt("name"),
     optNum("priority"), optBool("hasBlocking") >>
schemas_listProjectsSchema == << opt("teamId"), optNum("first") >>
searchIssuesSchema == << req("query"), optNum("first") >>
getIssueSchema == << req("issueId") >>
listRoadmapsSchema ==
  << optNum("first"), optNum("last"), optBool("includeArchived"),
     optBool("includeProjects") >>
schemas_listRoadmapsSchema == << optNum("first") >>
getInitiativeSchema == << req("initiativeId") >>
createCommentSchema == << req("issueId"), req("body") >>
getCommentSchema == << req("commentId") >>
updateCommentSchema == << req("commentId"), req("body") >>
deleteCommentSchema == << req("commentId") >>
listLabelsSchema == << opt("teamId"), optNum("first") >>
createLabelSchema == << req("teamId"), req("name"), opt("color"), opt("description") >>
updateLabelSchema == << req("labelId"), opt("name"), opt("color"), opt("description") >>
listCyclesSchema == << opt("teamId"), optNum("first") >>
createCycleSchema ==
  << req("teamId"), req("name"), opt("description"), req("startDate"), req("endDate") >>
updateCycleSchema ==
  << req("cycleId"), opt("name"), opt("description"), opt("startDate"), opt("endDate") >>
listDocumentsSchema == << opt("teamId"), optNum("first") >>
createDocumentSchema == << req("title"), req("content"), req("teamId"), opt("projectId") >>
updateDocumentSchema == << req("documentId"), opt("title"), opt("content") >>
listUsersSchema == << optNum("first") >>
listTeamsSchema == << optNum("first") >>
getUserSchema == << req("userId") >>
meSchema == << >>
getTeamSchema == << req("teamId") >>
getProjectSchema == << req("projectId") >>
getRoadmapSchema ==
  << req("roadmapId"), optBool("includeProjects"), optBool("includeArchived") >>
schemas_getRoadmapSchema == << req("roadmapId") >>
getLabelSchema == << req("labelId") >>
getCycleSchema == << req("cycleId"), optBool("includeIssues"), optNum("first") >>
schemas_getCycleSchema == << req("cycleId") >>
getDocumentSchema == << req("documentId") >>

\* The input shape each server declares for a tool
DeclaredSchema(srv, tool) ==
  CASE tool = "create_issue"    -> createIssueSchema
    [] tool = "list_issues"     -> IF srv = "index" THEN listIssuesSchema ELSE schemas_listIssuesSchema
    [] tool = "update_issue"    -> updateIssueSchema
    [] tool = "list_teams"      -> IF srv = "index" THEN << >> ELSE listTeamsSchema
    [] tool = "list_projects"   -> IF srv = "index" THEN listProjectsSchema ELSE schemas_listProjectsSchema
    [] tool = "search_issues"   -> searchIssuesSchema
    [] tool = "get_issue"       -> getIssueSchema
    [] tool = "list_roadmaps"   -> IF srv = "index" THEN listRoadmapsSchema ELSE schemas_listRoadmapsSchema
    [] tool = "get_initiative"  -> getInitiativeSchema
    [] tool = "create_comment"  -> createCommentSchema
    [] tool = "get_comment"     -> getCommentSchema
    [] tool = "update_comment"  -> updateCommentSchema
    [] tool = "delete_comment"  -> deleteCommentSchema
    [] tool = "list_labels"     -> listLabelsSchema
    [] tool = "create_label"    -> createLabelSchema
    [] tool = "update_label"    -> updateLabelSchema
    [] tool = "list_cycles"     -> listCyclesSchema
    [] tool = "create_cycle"    -> createCycleSchema
    [] tool = "update_cycle"    -> updateCycleSchema
    [] tool = "list_documents"  -> listDocumentsSchema
    [] tool = "create_document" -> createDocumentSchema
    [] tool = "update_document" -> updateDocumentSchema
    [] tool = "list_users"      -> listUsersSchema
    [] tool = "get_user"        -> getUserSchema
    [] tool = "get_team"        -> getTeamSchema
    [] tool = "get_project"     -> getProjectSchema
    [] tool = "get_roadmap"     -> IF srv = "index" THEN getRoadmapSchema ELSE schemas_getRoadmapSchema
    [] tool = "get_label"       -> getLabelSchema
    [] tool = "get_cycle"       -> IF srv = "index" THEN getCycleSchema ELSE schemas_getCycleSchema
    [] tool = "get_document"    -> getDocumentSchema
    [] OTHER                    -> meSchema

(***************************************************************************)
(* Errors and validateRequest                                              *)
(***************************************************************************)
McpError(code, msg) == [kind |-> "throw", mcp |-> TRUE, code |-> code, msg |-> msg]
JsError(msg) == [kind |-> "throw", mcp |-> FALSE, code |-> "none", msg |-> msg]

Expected(t) ==
  CASE t = "string"  -> "Expected string"
    [] t = "number"  -> "Expected number"
    [] t = "boolean" -> "Expected boolean"
    [] OTHER         -> "Expected array"

\* the issue zod reports for one field, "none" when the field is fine
ZodIssue(f, args) ==
  IF f.name \notin DOMAIN args
    THEN (IF f.required THEN "Required" ELSE "none")
  ELSE IF args[f.name].type # f.type THEN Expected(f.type)
  ELSE IF f.ranged /\ args[f.name].num < f.min
    THEN "Number must be greater than or equal to min"
  ELSE IF f.ranged /\ args[f.name].num > f.max
    THEN "Number must be less than or equal to max"
  ELSE "none"

\* error.errors of the ZodError: one entry per violated field
ZodErrors(schema, args) ==
  LET bad == SelectSeq(schema, LAMBDA f : ZodIssue(f, args) # "none")
  IN [i \in DOMAIN bad |-> [path |-> bad[i].name, message |-> ZodIssue(bad[i], args)]]

\* schema.parse keeps the declared keys only
Parsed(schema, args) ==
  Only(DOMAIN args \cap {schema[i].name : i \in DOMAIN schema}, args)

\* a formatter that reports the first issue only
formatFirstZodError(errors) ==
  IF errors = << >> THEN << >>
  ELSE << Head(errors).path, ": ", Head(errors).message >>

RECURSIVE formatZodError(_)
formatZodError(errors) ==
  IF errors = << >> THEN << >>
  ELSE LET e == Head(errors)
           rest == formatZodError(Tail(errors))
       IN << e.path, ": ", e.message >> \o (IF rest = << >> THEN << >> ELSE << ", " >> \o rest)

RECURSIVE JoinMessages(_)
JoinMessages(errors) ==
  IF errors = << >> THEN << >>
  ELSE LET rest == JoinMessages(Tail(errors))
       IN << Head(errors).message >> \o (IF rest = << >> THEN << >> ELSE << ", " >> \o rest)

\* validateRequest of schemas/index.ts, used by src/index.ts
validateRequest(schema, data) ==
  LET errors == ZodErrors(schema, data)
  IN IF errors # << >>
       THEN McpError("InvalidParams", << "Validation error: " >> \o formatZodError(errors))
       ELSE [kind |-> "value", data |-> Parsed(schema, data)]

\* validateRequest of utils.ts, used by ToolHandlers
utils_validateRequest(schema, data) ==
  LET errors == ZodErrors(schema, data)
  IN IF errors # << >>
       THEN McpError("InvalidArguments", << "Invalid arguments: " >> \o JoinMessages(errors))
       ELSE [kind |-> "value", data |-> Parsed(schema, data)]

(***************************************************************************)
(* Request arguments explored: every required field but at most one, at    *)
(* most MaxOptional optional fields, well-formed values except for at most *)
(* one field that carries a boundary or ill-typed value.                   *)
(***************************************************************************)
Good(f) ==
  CASE f.type = "string"  -> Str("id1")
    [] f.type = "number"  -> Num(3)
    [] f.type = "boolean" -> Bool(TRUE)
    [] OTHER              -> Arr

Alt(f) ==
  CASE f.type = "string"  -> {Str(""), Num(5)}
    [] f.type = "number"  -> {Num(0), Num(60), Num(150), Num(-1), Str("id1")}
    [] f.type = "boolean" -> {Bool(FALSE), Str("id1")}
    [] OTHER              -> {Str("id1")}

FieldsOf(schema) == {schema[i] : i \in DOMAIN schema}

ArgsFor(schema) ==
  LET R == {f \in FieldsOf(schema) : f.required}
      O == {f \in FieldsOf(schema) : ~f.required}
      Provided == { (R \ miss) \cup some :
                      miss \in {m \in SUBSET R : Cardinality(m) <= 1},
                      some \in {o \in SUBSET O : Cardinality(o) <= MaxOptional} }
      Plain(P) == [n \in {f.name : f \in P} |-> Good(CHOOSE f \in P : f.name = n)]
  IN UNION { {Plain(P)} \cup
             UNION { { [Plain(P) EXCEPT ![d.name] = v] : v \in Alt(d) } : d \in P }
             : P \in Provided }

(***************************************************************************)
(* The Linear client.  `linear` fixes what the collaborator answers in the *)
(* current call:                                                           *)
(*   byId    the first fetch by id        entity | null | error | ratelimit*)
(*   second  a second fetch or a relation the handler branches on          *)
(*   main    the write or the top-level connection query                   *)
(*   rel     the awaited relations (Promise.all fan-out)                   *)
(*   sub     the query for an embedded part (templates, projects, ...)     *)
(*   subrel  the relations of the embedded entities                        *)
(*   relation whether the entities' optional relations exist upstream      *)
(*   total   how many entities upstream match the connection query         *)
(*   upstream the entities the queries of get_project, get_issue and        *)
(*           list_documents read, for the parts of their response that are *)
(*           computed from them                                            *)
(***************************************************************************)
DefaultFirst == 50

Totals == {0, 2, DefaultFirst + 1}

\* longest list of entities an upstream connection holds
MaxNodes == 2
\* longest list of documents of the workspace
MaxDocuments == 4

\* the sequences over S of length at most n
SeqsUpTo(S, n) == UNION {[1..k -> S] : k \in 0..n}

\* an issue of a project as far as its dates count
IssueDates == [completedAt : BOOLEAN, canceledAt : BOOLEAN]

NoUpstream ==
  [creator |-> "u1", lead |-> "u2", issues |-> << >>, attachments |-> << >>,
   documents |-> << >>]

\* what the workspace holds for the tool that is called
Upstream(name) ==
  CASE name = "get_project" ->
         { [NoUpstream EXCEPT !.creator = c, !.lead = l] :
             c \in {"none", "u1"}, l \in {"none", "u1", "u2"} }
         \cup { [NoUpstream EXCEPT !.issues = i] : i \in SeqsUpTo(IssueDates, MaxNodes) }
    [] name = "get_issue" ->
         { [NoUpstream EXCEPT !.attachments = a] :
             a \in SeqsUpTo({"a.PNG", "b.pdf"}, MaxNodes) }
    [] name = "list_documents" ->
         { [NoUpstream EXCEPT !.documents = d] :
             d \in SeqsUpTo({"team", "other"}, MaxDocuments) }
    [] OTHER -> {NoUpstream}

Nominal ==
  [byId |-> "entity", second |-> "entity", main |-> "ok", rel |-> "ok",
   sub |-> "ok", subrel |-> "ok", relation |-> "present"]

Answers ==
  [byId   : {"entity", "null", "error", "ratelimit"},
   second : {"entity", "null", "error", "ratelimit"},
   main   : {"ok", "error", "ratelimit"},
   rel    : {"ok", "error", "ratelimit"},
   sub    : {"ok", "nodata", "error", "ratelimit"},
   subrel : {"ok", "error", "ratelimit"},
   relation : {"present", "absent"}]

Faults(a) == Cardinality({k \in DOMAIN Nominal : a[k] # Nominal[k]})

Failed(o) == o \in {"error", "ratelimit"}

\* the exception the client throws
UpstreamError(o) ==
  JsError(<< IF o = "ratelimit" THEN "Rate limit exceeded" ELSE "Request failed" >>)

\* error.message.includes("Rate limit exceeded")
IncludesRateLimit(msg) == \E i \in DOMAIN msg : msg[i] = "Rate limit exceeded"

\* literal texts of the program that contain "not found"
NotFoundTexts ==
  { " not found", "Issue not found: ", "Comment not found: ", "Team not found: ",
    "Label not found: ", "Cycle not found: ", "Document not found: ",
    "Project not found: ", "User not found: ", "Roadmap not found: ",
    "Initiative not found: ", "\" not found in team workflow" }

\* error.message.includes("not found")
IncludesNotFound(msg) == \E i \in DOMAIN msg : msg[i] \in NotFoundTexts

\* the page a connection query returns for the `first` it was given
PageFirst(data) ==
  IF "first" \in DOMAIN data /\ data["first"].type = "number"
    THEN Max(data["first"].num, 0) ELSE DefaultFirst
PageCount(data, total) == Min(PageFirst(data), total)
HasNextPage(data, total) == total > PageFirst(data)

(***************************************************************************)
(* A handler body is a sequence of awaited client calls; Exec runs them in *)
(* order and stops at the first exception.                                 *)
(***************************************************************************)
NoThrow == [kind |-> "none", mcp |-> FALSE, code |-> "none", msg |-> << >>]
NotFound(msg) == McpError("MethodNotFound", msg)

Step(op, what, id, data, answer, onNull, tolerate) ==
  [op |-> op, what |-> what, id |-> id, data |-> data, answer |-> answer,
   onNull |-> onNull, tolerate |-> tolerate]

\* the same fetch without the `if (!entity) throw`
FetchByIdUnchecked(what, id, answer, onNull) ==
  Step("fetch", what, Show(id), NoData, answer, NoThrow, "none")
\* await client.<what>(id); if (!entity) throw onNull
FetchById(what, id, answer, onNull) == Step("fetch", what, Show(id), NoData, answer, onNull, "none")
\* await entity.<relation>
Rel(what, answer) == Step("rel", what, "", NoData, answer, NoThrow, "none")
\* await client.<what>(variables) returning a connection
List(what, data, answer) == Step("list", what, "", data, answer, NoThrow, "none")
\* the same inside an inner try/catch that keeps the handler going
ListTolerated(what, data, answer, tolerate) == Step("list", what, "", data, answer, NoThrow, tolerate)
RelTolerated(what, answer) == Step("rel", what, "", NoData, answer, NoThrow, "all")
\* a mutation handler that only reads the entity back
WriteSkipped(what, id, data, answer) == Step("fetch", what, Show(id), NoData, answer, NoThrow, "none")
\* await client.createX(input) / entity.update(input) / entity.delete()
Write(what, id, data, answer) == Step("write", what, Show(id), data, answer, NoThrow, "none")
\* throw err
Throw(err) == Step("throw", "throw", "", NoData, "ok", err, "none")

\* one external call as the client saw it, with what it answered
Call(s) == [op |-> s.op, what |-> s.what, id |-> s.id, data |-> s.data, answer |-> s.answer]

Done(c, sw, o) == [calls |-> c, swallowed |-> sw, out |-> o]

\* an inner catch that swallows every failure
ToleratesAny(s) == s.tolerate # "none"

\* whether the inner try/catch around the call keeps the handler going
Tolerates(s) ==
  \/ s.tolerate = "all"
  \/ s.tolerate = "ratelimit" /\ s.answer = "ratelimit"

RECURSIVE Exec(_, _, _)
Exec(prog, log, sw) ==
  IF prog = << >> THEN Done(log, sw, [kind |-> "completed"])
  ELSE LET s == Head(prog)
           log2 == Append(log, Call(s))
       IN IF s.op = "throw" THEN Done(log, sw, s.onNull)
          ELSE IF Failed(s.answer) /\ Tolerates(s)
            THEN Exec(Tail(prog), log2, sw \cup {s.what})
          ELSE IF Failed(s.answer) THEN Done(log2, sw, UpstreamError(s.answer))
          ELSE IF s.answer = "null" /\ s.onNull.kind # "none" THEN Done(log2, sw, s.onNull)
          ELSE Exec(Tail(prog), log2, sw)

Run(prog) == Exec(prog, << >>, {})

\* the JSON document a handler returns
NoParts == [k \in {} |-> "full"]
Body(shape, count, pageInfo, parts) ==
  [shape |-> shape, count |-> count, pageInfo |-> pageInfo, parts |-> parts,
   fields |-> NoParts, data |-> NoParts]
PageInfo(data, total) == IF HasNextPage(data, total) THEN "hasNextPage" ELSE "lastPage"

Return(r, body) ==
  IF r.out.kind = "completed" THEN [r EXCEPT !.out = [kind |-> "return", body |-> body]] ELSE r

\* JSON.stringify leaves out the properties whose value is undefined
Stringify(fields) == [k \in {f \in DOMAIN fields : fields[f] # "undefined"} |-> fields[k]]

\* the relation fields of the entities a handler formatted, as they are serialized
WithFields(r, fields) ==
  IF r.out.kind = "return" /\ r.out.body.count > 0
    THEN [r EXCEPT !.out.body.fields = Stringify(fields)] ELSE r

\* the properties of the response that are computed from upstream entities
WithData(r, data) ==
  IF r.out.kind = "return" THEN [r EXCEPT !.out.body.data = data] ELSE r

\* validation failed before the body started
Rejected(err) == Done(<< >>, {}, err)

\* catch (error) { throw new McpError(InternalError, `${prefix}${error.message}`) }
CatchWrap(prefix, r) ==
  IF r.out.kind = "throw"
    THEN [r EXCEPT !.out = McpError("InternalError", << prefix >> \o r.out.msg)]
    ELSE r

\* catch (error) { if (error instanceof McpError) throw error; throw new McpError(...) }
CatchRethrow(prefix, r) ==
  IF r.out.kind = "throw" /\ ~r.out.mcp THEN CatchWrap(prefix, r) ELSE r

RateLimitText == "Linear API rate limit exceeded. Try again later or use smaller page sizes."

\* catch that singles out "Rate limit exceeded"
CatchRateLimit(prefix, r) ==
  IF r.out.kind = "throw" /\ IncludesRateLimit(r.out.msg)
    THEN [r EXCEPT !.out = McpError("InternalError", << RateLimitText >>)]
    ELSE CatchWrap(prefix, r)

\* catch of get_roadmap and get_cycle: rate limit, then not found, then the rest
CatchClassify(prefix, notFound, r) ==
  IF r.out.kind = "throw" /\ IncludesRateLimit(r.out.msg)
    THEN [r EXCEPT !.out = McpError("InternalError", << RateLimitText >>)]
  ELSE IF r.out.kind = "throw" /\ IncludesNotFound(r.out.msg)
    THEN [r EXCEPT !.out = NotFound(notFound)]
  ELSE CatchWrap(prefix, r)

\* object literal { k: v, ... }: keys whose value is undefined are not sent
Defined(obj) == Only({k \in DOMAIN obj : obj[k].type # "undefined"}, obj)
\* keys assigned under `if (value)`
IfTruthy(obj) == Only({k \in DOMAIN obj : Truthy(obj[k])}, obj)
Merge(a, b) == [k \in DOMAIN a \cup DOMAIN b |-> IF k \in DOMAIN b THEN b[k] ELSE a[k]]

(***************************************************************************)
(* src/index.ts: the cases of the CallTool switch.  Each takes the request *)
(* arguments and the answers of the client and yields the calls made and   *)
(* what the case returned or threw.                                        *)
(***************************************************************************)
NoId == Str("")
Json == Body("json", 1, "absent", NoParts)

index_create_issue(args, L) ==
  LET v == validateRequest(createIssueSchema, args)
  IN IF v.kind = "throw" THEN Rejected(v)
     ELSE LET a == v.data
              input == Defined([title |-> Arg(a, "title"),
                                description |-> Arg(a, "description"),
                                teamId |-> Arg(a, "teamId"),
                                assigneeId |-> Arg(a, "assigneeId"),
                                priority |-> Arg(a, "priority"),
                                labelIds |-> Arg(a, "labels")])
          IN Return(Run(<< Write("createIssue", NoId, input, L.main) >>), Json)

\* String.prototype.toLowerCase on the names the model uses
toLowerCase(s) ==
  CASE s = "ID1" -> "id1"
    [] s = "Id1" -> "id1"
    [] s = "Todo" -> "todo"
    [] s = "PNG" -> "png"
    [] OTHER -> s

\* states.nodes of the issue's team: with sub = "ok" the workflow has a state
\* named "ID1", which equals the status "id1" only when letter case is ignored
teamStates(sub) ==
  IF sub = "ok"
    THEN << [id |-> "state2", name |-> "Todo"], [id |-> "state1", name |-> "ID1"] >>
    ELSE << [id |-> "state2", name |-> "Todo"] >>

\* a find that compares the names as they are written
findStateExact(nodes, status) == SelectSeq(nodes, LAMBDA s : s.name = status.str)

\* states.nodes.find(s => s.name.toLowerCase() === args.status.toLowerCase()):
\* the matches in order, find returns the first
findState(nodes, status) ==
  SelectSeq(nodes, LAMBDA s : toLowerCase(s.name) = toLowerCase(status.str))

\* updateData of case "update_issue"
index_updateIssueData(a, state) ==
  Merge(Merge(IfTruthy([title |-> Arg(a, "title"), labelIds |-> Arg(a, "labels")]),
              Defined([description |-> Arg(a, "description"),
                       priority |-> Arg(a, "priority")])),
        Merge(IF Arg(a, "assigneeId").type # "undefined"
                THEN Obj1("assigneeId", FalsyOr(Arg(a, "assigneeId"), Null))
                ELSE NoData,
              IF state # << >> THEN Obj1("stateId", Str(state[1].id)) ELSE NoData))

index_update_issue(args, L) ==
  LET v == validateRequest(updateIssueSchema, args)
  IN IF v.kind = "throw" THEN Rejected(v)
     ELSE LET a == v.data
              id == Arg(a, "issueId")
              status == Arg(a, "status")
              hasTeam == L.second = "entity"
              found == findState(teamStates(L.sub), status)
              state == IF Truthy(status) /\ hasTeam /\ ~Failed(L.sub) THEN found ELSE << >>
              resolve ==
                IF ~Truthy(status) THEN << >>
                ELSE << Rel("issue.team", L.second) >> \o
                     (IF ~hasTeam THEN << >>
                      ELSE << List("team.states", NoData,
                                   IF L.sub = "nodata" THEN "ok" ELSE L.sub) >> \o
                           (IF found = << >>
                              THEN << Throw(McpError("InvalidParams",
                                        << "Status \"", Show(status),
                                           "\" not found in team workflow" >>)) >>
                              ELSE << >>))
          IN Return(Run(<< FetchById("issue", id, L.byId,
                             NotFound(<< "Issue with ID ", Show(id), " not found" >>)) >>
                        \o resolve
                        \o << Write("issue.update", id,
                                    index_updateIssueData(a, state), L.main) >>),
                    Json)

\* issueDetails of case "get_issue": status is the state's name or "Unknown",
\* every other relation an object or null
index_getIssueDetails(relation) ==
  [status   |-> IF relation = "present" THEN "string" ELSE "Unknown",
   assignee |-> IF relation = "present" THEN "object" ELSE "null",
   creator  |-> IF relation = "present" THEN "object" ELSE "null",
   team     |-> IF relation = "present" THEN "object" ELSE "null",
   project  |-> IF relation = "present" THEN "object" ELSE "null",
   parent   |-> IF relation = "present" THEN "object" ELSE "null",
   cycle    |-> IF relation = "present" THEN "object" ELSE "null"]

\* case "get_issue" that awaits the relations whatever the fetch returned
index_get_issue_unchecked(args, L) ==
  LET id == Arg(args, "issueId")
  IN Return(Run(<< FetchByIdUnchecked("issue", id, L.byId, NoThrow),
                   Rel("issue.relations", L.rel) >>),
            Json)

\* what follows the last dot of the urls the model uses
extension(url) ==
  CASE url = "a.PNG" -> "PNG"
    [] url = "b.pdf" -> "pdf"
    [] OTHER -> ""

\* attachment.url.match(/\.(jpg|jpeg|png|gif|webp)$/i)
isImage(url) == toLowerCase(extension(url)) \in {"jpg", "jpeg", "png", "gif", "webp"}

\* issueDetails.attachments as the handler leaves it: the second assignment
\* keeps the attachments whose url names an image
issueAttachments(nodes) == SelectSeq(nodes, isImage)

index_get_issue(args, L) ==
  LET v == validateRequest(getIssueSchema, args)
  IN IF v.kind = "throw" THEN Rejected(v)
     ELSE LET id == Arg(v.data, "issueId")
          IN WithData(
               WithFields(
                 Return(Run(<< FetchById("issue", id, L.byId,
                                 NotFound(<< "Issue with ID ", Show(id), " not found" >>)),
                               Rel("issue.relations", L.rel) >>),
                        Json),
                 index_getIssueDetails(L.relation)),
               [attachments |-> issueAttachments(L.upstream.attachments)])

index_get_initiative(args, L) ==
  LET v == validateRequest(getInitiativeSchema, args)
  IN IF v.kind = "throw" THEN Rejected(v)
     ELSE LET id == Arg(v.data, "initiativeId")
          IN CatchRethrow("Failed to get initiative details: ",
               Return(Run(<< FetchById("initiative", id, L.byId,
                               NotFound(<< "Initiative not found: ", Show(id) >>)),
                             Rel("initiative.creator", L.rel) >>),
                      Json))

index_create_comment(args, L) ==
  LET v == validateRequest(createCommentSchema, args)
  IN IF v.kind = "throw" THEN Rejected(v)
     ELSE LET a == v.data
              id == Arg(a, "issueId")
          IN CatchRethrow("Failed to create comment: ",
               Return(Run(<< FetchById("issue", id, L.byId,
                               NotFound(<< "Issue not found: ", Show(id) >>)),
                             Write("createComment", NoId,
                                   [issueId |-> id, body |-> Arg(a, "body")], L.main) >>
                          \o (IF L.sub = "nodata"
                                THEN << Throw(McpError("InternalError",
                                          << "Comment was created but no comment data was returned" >>)) >>
                                ELSE << Rel("comment", L.rel) >>)),
                      Json))

index_get_comment(args, L) ==
  LET id == Arg(args, "commentId")
  IN CatchWrap("Failed to get comment: ",
       Return(Run(<< FetchById("comment", id, L.byId,
                       NotFound(<< "Comment not found: ", Show(id) >>)),
                     Rel("comment.relations", L.rel) >>),
              Json))

index_update_comment(args, L) ==
  LET id == Arg(args, "commentId")
  IN CatchWrap("Failed to update comment: ",
       Return(Run(<< FetchById("comment", id, L.byId,
                       NotFound(<< "Comment not found: ", Show(id) >>)),
                     Write("comment.update", id,
                           Defined(Obj1("body", Arg(args, "body"))), L.main) >>),
              Json))

index_delete_comment(args, L) ==
  LET id == Arg(args, "commentId")
  IN CatchWrap("Failed to delete comment: ",
       Return(Run(<< FetchById("comment", id, L.byId,
                       NotFound(<< "Comment not found: ", Show(id) >>)),
                     Write("comment.delete", id, NoData, L.main) >>),
              Json))

index_create_label(args, L) ==
  LET id == Arg(args, "teamId")
  IN CatchWrap("Failed to create label: ",
       Return(Run(<< FetchById("team", id, L.byId,
                       NotFound(<< "Team not found: ", Show(id) >>)),
                     Write("createIssueLabel", NoId,
                           Defined([name |-> Arg(args, "name"), teamId |-> id,
                                    color |-> Arg(args, "color"),
                                    description |-> Arg(args, "description")]),
                           L.main) >>),
              Json))

\* updateData built as one object literal of all three fields
updateLabelDataAll(args) ==
  [name |-> Arg(args, "name"), color |-> Arg(args, "color"),
   description |-> Arg(args, "description")]

\* updateData of case "update_label"
updateLabelData(args) ==
  IfTruthy([name |-> Arg(args, "name"), color |-> Arg(args, "color"),
            description |-> Arg(args, "description")])

index_update_label(args, L) ==
  LET id == Arg(args, "labelId")
  IN CatchWrap("Failed to update label: ",
       Return(Run(<< FetchById("issueLabel", id, L.byId,
                       NotFound(<< "Label not found: ", Show(id) >>)),
                     Write("label.update", id, updateLabelData(args), L.main) >>),
              Json))

index_create_cycle(args, L) ==
  LET id == Arg(args, "teamId")
  IN CatchWrap("Failed to create cycle: ",
       Return(Run(<< FetchById("team", id, L.byId,
                       NotFound(<< "Team not found: ", Show(id) >>)),
                     Write("createCycle", NoId,
                           Defined([teamId |-> id, name |-> Arg(args, "name"),
                                    description |-> Arg(args, "description"),
                                    startsAt |-> DateOf(Arg(args, "startDate")),
                                    endsAt |-> DateOf(Arg(args, "endDate"))]),
                           L.main) >>),
              Json))

\* updateData of case "update_cycle"
updateCycleData(args) ==
  Merge(IfTruthy([name |-> Arg(args, "name"), description |-> Arg(args, "description")]),
        Merge(IF Truthy(Arg(args, "startDate"))
                THEN Obj1("startsAt", DateOf(Arg(args, "startDate"))) ELSE NoData,
              IF Truthy(Arg(args, "endDate"))
                THEN Obj1("endsAt", DateOf(Arg(args, "endDate"))) ELSE NoData))

index_update_cycle(args, L) ==
  LET id == Arg(args, "cycleId")
  IN CatchWrap("Failed to update cycle: ",
       Return(Run(<< FetchById("cycle", id, L.byId,
                       NotFound(<< "Cycle not found: ", Show(id) >>)),
                     Write("cycle.update", id, updateCycleData(args), L.main) >>),
              Json))

index_create_document(args, L) ==
  LET id == Arg(args, "teamId")
      projectId == Arg(args, "projectId")
      checkProject ==
        IF Truthy(projectId)
          THEN << FetchById("project", projectId, L.second,
                    NotFound(<< "Project not found: ", Show(projectId) >>)) >>
          ELSE << >>
      documentData ==
        Merge(Defined([title |-> Arg(args, "title"), content |-> Arg(args, "content"),
                       teamId |-> id]),
              IfTruthy(Obj1("projectId", projectId)))
  IN CatchWrap("Failed to create document: ",
       Return(Run(<< FetchById("team", id, L.byId,
                       NotFound(<< "Team not found: ", Show(id) >>)) >>
                  \o checkProject
                  \o << Write("createDocument", NoId, documentData, L.main) >>),
              Json))

\* updateData of case "update_document"
updateDocumentData(args) ==
  IfTruthy([title |-> Arg(args, "title"), content |-> Arg(args, "content")])

index_update_document(args, L) ==
  LET id == Arg(args, "documentId")
  IN CatchWrap("Failed to update document: ",
       Return(Run(<< FetchById("document", id, L.byId,
                       NotFound(<< "Document not found: ", Show(id) >>)),
                     Write("document.update", id, updateDocumentData(args), L.main) >>),
              Json))

\* a filter whose priority entry is assigned without the `!== undefined` test
index_listIssuesFilterEager(a) ==
  Merge(IfTruthy([team |-> Arg(a, "teamId"), assignee |-> Arg(a, "assigneeId"),
                  state |-> Arg(a, "status"), dueDate |-> Arg(a, "dueDate"),
                  hasBlockedByRelations |-> Arg(a, "isBlocked")]),
        Obj1("priority", Arg(a, "priority")))

\* filter of case "list_issues"
index_listIssuesFilter(a) ==
  Merge(IfTruthy([team |-> Arg(a, "teamId"), assignee |-> Arg(a, "assigneeId"),
                  state |-> Arg(a, "status"), dueDate |-> Arg(a, "dueDate"),
                  hasBlockedByRelations |-> Arg(a, "isBlocked")]),
        Defined(Obj1("priority", Arg(a, "priority"))))

\* a filter travels inside the query variables under `filter`
Filter(f) == Obj1("filter", [type |-> "object", str |-> "", num |-> 0, bool |-> FALSE, keys |-> DOMAIN f])

\* relations are awaited for every node of the page, so only if it has nodes
PerNode(n, steps) == IF n > 0 THEN steps ELSE << >>

\* formattedIssues of case "list_issues": every relation an object or null
index_formattedIssues(relation) ==
  [status   |-> IF relation = "present" THEN "object" ELSE "null",
   assignee |-> IF relation = "present" THEN "object" ELSE "null",
   creator  |-> IF relation = "present" THEN "object" ELSE "null",
   project  |-> IF relation = "present" THEN "object" ELSE "null",
   team     |-> IF relation = "present" THEN "object" ELSE "null",
   cycle    |-> IF relation = "present" THEN "object" ELSE "null",
   parent   |-> IF relation = "present" THEN "object" ELSE "null"]

index_list_issues(args, L) ==
  LET v == validateRequest(listIssuesSchema, args)
  IN IF v.kind = "throw" THEN Rejected(v)
     ELSE LET a == v.data
              queryOptions ==
                Merge([first |-> NullishOr(Arg(a, "first"), Num(DefaultFirst)),
                       includeArchived |-> FalsyOr(Arg(a, "includeArchived"), Bool(FALSE))],
                      Filter(index_listIssuesFilter(a)))
              n == PageCount(queryOptions, L.total)
          IN WithFields(
               Return(Run(<< List("issues", queryOptions, L.main) >>
                          \o PerNode(n, << Rel("issue.relations", L.rel) >>)),
                      Body("array", n, "absent", NoParts)),
               index_formattedIssues(L.relation))

index_list_teams(args, L) ==
  CatchWrap("Failed to list teams: ",
    Return(Run(<< List("teams", NoData, L.main) >>),
           Body("array", PageCount(NoData, L.total), "absent", NoParts)))

\* filter of case "list_projects"
index_listProjectsFilter(a) ==
  Merge(IfTruthy([team |-> Arg(a, "teamId"), name |-> Arg(a, "name"),
                  hasBlockingIssues |-> Arg(a, "hasBlocking")]),
        Defined(Obj1("priority", Arg(a, "priority"))))

index_list_projects(args, L) ==
  LET v == validateRequest(listProjectsSchema, args)
  IN IF v.kind = "throw" THEN Rejected(v)
     ELSE LET a == v.data
              queryVariables ==
                Merge(Merge(Obj1("first", NullishOr(Arg(a, "first"), Num(DefaultFirst))),
                            Filter(index_listProjectsFilter(a))),
                      IfTruthy(Obj1("after", Arg(a, "after"))))
              n == PageCount(queryVariables, L.total)
          IN CatchWrap("Failed to list projects: ",
               CatchWrap("Failed to list projects: ",
                 Return(Run(<< List("projects", queryVariables, L.main) >>
                            \o PerNode(n, << Rel("project.relations", L.rel) >>)),
                        Body("object", n, PageInfo(queryVariables, L.total), NoParts))))

index_search_issues(args, L) ==
  LET v == validateRequest(searchIssuesSchema, args)
  IN IF v.kind = "throw" THEN Rejected(v)
     ELSE LET a == v.data
              queryVariables ==
                [first |-> NullishOr(Arg(a, "first"), Num(DefaultFirst)),
                 query |-> Arg(a, "query")]
              n == PageCount(queryVariables, L.total)
          IN CatchRateLimit("Failed to search issues: ",
               Return(Run(<< List("issueSearch", queryVariables, L.main) >>
                          \o PerNode(n, << Rel("issue.relations", L.rel) >>)),
                      Body("object", n, PageInfo(queryVariables, L.total), NoParts)))

index_list_roadmaps(args, L) ==
  LET variables ==
        Defined([first |-> NullishOr(Arg(args, "first"),
                             IF Truthy(Arg(args, "last")) THEN Undefined
                             ELSE Num(DefaultFirst)),
                 last |-> Arg(args, "last"),
                 includeArchived |-> Arg(args, "includeArchived")])
      n == PageCount(variables, L.total)
      projects ==
        IF Truthy(Arg(args, "includeProjects"))
          THEN << ListTolerated("roadmap.projects",
                    Defined([first |-> Num(50),
                             includeArchived |-> Arg(args, "includeArchived")]),
                    L.sub, "ratelimit") >>
          ELSE << >>
      r == Run(<< List("roadmaps", variables, L.main) >>
               \o PerNode(n, << Rel("roadmap.creator", L.rel) >> \o projects))
      parts ==
        IF ~Truthy(Arg(args, "includeProjects")) \/ n = 0 THEN NoParts
        ELSE Obj1("projectIds",
                  IF "roadmap.projects" \in r.swallowed THEN "placeholder" ELSE "full")
  IN CatchRateLimit("Failed to list roadmaps: ",
       Return(r, Body("object", n, PageInfo(variables, L.total), parts)))

\* const { teamId, first = 50 } = args, then team.<what>({ first }) or client.<all>({ first })
ByTeamOrAll(args, L, teamWhat, allWhat) ==
  LET teamId == Arg(args, "teamId")
      first == Obj1("first", DefaultOf(Arg(args, "first"), Num(DefaultFirst)))
      r == Run(IF Truthy(teamId)
                 THEN << FetchById("team", teamId, L.byId,
                           NotFound(<< "Team not found: ", Show(teamId) >>)),
                         List(teamWhat, first, L.main) >>
                 ELSE << List(allWhat, first, L.main) >>)
  IN Return(r, Body("array", PageCount(first, L.total), "absent", NoParts))

\* labels of case "list_labels": teamId: label.team?.id, team: label.team?.name
index_listLabelsFormat(relation) ==
  [teamId |-> IF relation = "present" THEN "string" ELSE "undefined",
   team   |-> IF relation = "present" THEN "string" ELSE "undefined"]

index_list_labels(args, L) ==
  CatchWrap("Failed to list labels: ",
    WithFields(ByTeamOrAll(args, L, "team.labels", "issueLabels"),
               index_listLabelsFormat(L.relation)))

index_list_cycles(args, L) ==
  CatchWrap("Failed to list cycles: ", ByTeamOrAll(args, L, "team.cycles", "cycles"))

\* the positions 1..n of a connection's nodes
Positions(n) == [i \in 1..n |-> i]

\* documentsConnection.nodes: the first page of the workspace's documents
documentsPage(docs, first) ==
  Positions(PageCount(Obj1("first", first), Len(docs)))

\* teamDocIds: the first page of the team's own documents, none when the
\* raw query carries no team.documents.nodes
teamDocIds(docs, first, sub) ==
  LET own == SelectSeq(Positions(Len(docs)), LAMBDA i : docs[i] = "team")
  IN IF sub = "nodata" THEN << >>
     ELSE SubSeq(own, 1, PageCount(Obj1("first", first), Len(own)))

\* documentsConnection.nodes.filter((doc) => teamDocIdSet.has(doc.id))
teamDocuments(docs, first, sub) ==
  SelectSeq(documentsPage(docs, first),
            LAMBDA i : i \in SeqToSet(teamDocIds(docs, first, sub)))

index_list_documents(args, L) ==
  LET teamId == Arg(args, "teamId")
      first == DefaultOf(Arg(args, "first"), Num(DefaultFirst))
      docs == L.upstream.documents
      documents ==
        IF Truthy(teamId) THEN teamDocuments(docs, first, L.sub)
        ELSE documentsPage(docs, first)
      kept == Len(documents)
      team ==
        IF Truthy(teamId)
          THEN << FetchById("team", teamId, L.byId,
                    NotFound(<< "Team not found: ", Show(teamId) >>)),
                  Step("raw", "TeamDocuments", "", [teamId |-> teamId, first |-> first],
                       L.sub, NoThrow, "none") >>
          ELSE << >>
  IN CatchWrap("Failed to list documents: ",
       WithData(Return(Run(<< List("documents", Obj1("first", first), L.main) >>
                           \o team
                           \o PerNode(kept, << Rel("document.relations", L.rel) >>)),
                       Body("array", kept, "absent", NoParts)),
                [documents |-> documents]))

index_list_users(args, L) ==
  LET first == Obj1("first", DefaultOf(Arg(args, "first"), Num(DefaultFirst)))
  IN CatchWrap("Failed to list users: ",
       Return(Run(<< List("users", first, L.main) >>),
              Body("array", PageCount(first, L.total), "absent", NoParts)))

index_get_user(args, L) ==
  LET id == Arg(args, "userId")
  IN CatchWrap("Failed to get user: ",
       Return(Run(<< FetchById("user", id, L.byId,
                       NotFound(<< "User not found: ", Show(id) >>)) >>),
              Json))

index_me(args, L) ==
  CatchWrap("Failed to get authenticated user: ",
    Return(Run(<< FetchById("viewer", NoId, L.byId,
                    JsError(<< "Cannot read properties of null" >>)),
                  List("user.teams", NoData, L.main) >>),
           Json))

index_get_team(args, L) ==
  LET id == Arg(args, "teamId")
      r == Run(<< FetchById("team", id, L.byId,
                    NotFound(<< "Team not found: ", Show(id) >>)),
                  Rel("team.organization", L.rel),
                  List("teamMemberships", NoData, L.main) >>
               \o PerNode(L.total, << Rel("member.relations", L.rel) >>)
               \o << List("team.states", NoData, L.main),
                     ListTolerated("team.templates", NoData, L.sub, "all") >>)
      parts == Obj1("templates",
                    IF "team.templates" \in r.swallowed THEN "empty" ELSE "full")
  IN CatchWrap("Failed to get team: ", Return(r, Body("json", 1, "absent", parts)))

\* a lead that is listed whether or not it is the creator
fallbackMembersBoth(creator, lead) ==
  (IF creator # "none" THEN << creator >> ELSE << >>)
  \o (IF lead # "none" THEN << lead >> ELSE << >>)

\* members when the membership query gave no nodes: creator, then the lead
\* unless it is the creator (lead.id !== creator?.id)
fallbackMembers(creator, lead) ==
  (IF creator # "none" THEN << creator >> ELSE << >>)
  \o (IF lead # "none" /\ lead # creator THEN << lead >> ELSE << >>)

\* projectData.project.members.nodes when the membership query answers
memberNodes == << "u1", "u3", "u4" >>

\* issueStats of case "get_project"
issueStats(nodes) ==
  [total     |-> Len(nodes),
   completed |-> Len(SelectSeq(nodes, LAMBDA i : i.completedAt)),
   open      |-> Len(SelectSeq(nodes, LAMBDA i : ~i.completedAt /\ ~i.canceledAt)),
   canceled  |-> Len(SelectSeq(nodes, LAMBDA i : i.canceledAt))]

index_get_project(args, L) ==
  LET id == Arg(args, "projectId")
      r == Run(<< FetchById("project", id, L.byId,
                    NotFound(<< "Project not found: ", Show(id) >>)),
                  Rel("project.relations", L.rel),
                  Step("raw", "ProjectMembers", Show(id), Obj1("projectId", id),
                       L.sub, NoThrow, "all") >>
               \o PerNode(L.total, << Rel("update.user", L.subrel) >>))
      fallback == "ProjectMembers" \in r.swallowed \/ L.sub = "nodata"
      parts == Obj1("members", IF fallback THEN "fallback" ELSE "full")
      data ==
        [members |-> IF fallback THEN fallbackMembers(L.upstream.creator, L.upstream.lead)
                     ELSE memberNodes,
         issueStats |-> issueStats(L.upstream.issues)]
  IN CatchWrap("Failed to get project: ",
       WithData(Return(r, Body("json", 1, "absent", parts)), data))

\* a && b
And(a, b) == IF Truthy(a) THEN b ELSE a

index_get_roadmap(args, L) ==
  LET id == Arg(args, "roadmapId")
      includeProjects == Arg(args, "includeProjects") # Bool(FALSE)
      projects ==
        IF includeProjects
          THEN << ListTolerated("roadmap.projects",
                    Defined([first |-> Num(100),
                             includeArchived |-> And(Arg(args, "includeProjects"),
                                                     Arg(args, "includeArchived"))]),
                    L.sub, "all") >>
               \o (IF Failed(L.sub) THEN << >>
                   ELSE PerNode(L.total, << RelTolerated("roadmapProject.relations", L.subrel) >>))
          ELSE << >>
      r == Run(<< FetchById("roadmap", id, L.byId,
                    NotFound(<< "Roadmap not found: ", Show(id) >>)),
                  Rel("roadmap.creator", L.rel) >>
               \o projects)
      parts ==
        IF ~includeProjects THEN NoParts
        ELSE Obj1("projects",
                  IF "roadmap.projects" \in r.swallowed THEN "placeholder"
                  ELSE IF "roadmapProject.relations" \in r.swallowed THEN "basic"
                  ELSE "full")
  IN CatchClassify("Failed to get roadmap: ", << "Roadmap not found: ", Show(id) >>,
       Return(r, Body("json", 1, "absent", parts)))

index_get_label(args, L) ==
  LET id == Arg(args, "labelId")
      query == Filter(Obj1("labels", id))
  IN CatchWrap("Failed to get label: ",
       Return(Run(<< FetchById("issueLabel", id, L.byId,
                       NotFound(<< "Label not found: ", Show(id) >>)),
                     Rel("label.relations", L.rel),
                     List("issues", query, L.main) >>),
              Body("json", PageCount(query, L.total), "absent", NoParts)))

NaN == [type |-> "NaN", str |-> "NaN", num |-> 0, bool |-> FALSE]

\* Math.min(100, Math.max(1, args.first || 50))
index_pageSize(first) ==
  LET f == FalsyOr(first, Num(DefaultFirst))
  IN IF f.type = "number" THEN Num(Min(100, Max(1, f.num))) ELSE NaN

index_get_cycle(args, L) ==
  LET id == Arg(args, "cycleId")
      includeIssues == Truthy(Arg(args, "includeIssues"))
      issues ==
        IF includeIssues
          THEN << Step("raw", "CycleIssues", Show(id),
                       [cycleId |-> id, first |-> index_pageSize(Arg(args, "first"))],
                       L.sub, NoThrow, "all") >>
          ELSE << >>
      r == Run(<< FetchById("cycle", id, L.byId,
                    NotFound(<< "Cycle not found: ", Show(id) >>)),
                  Rel("cycle.team", L.rel) >>
               \o issues)
      parts ==
        IF ~includeIssues THEN NoParts
        ELSE Obj1("issues",
                  IF "CycleIssues" \in r.swallowed THEN "placeholder"
                  ELSE IF L.sub = "nodata" THEN "empty" ELSE "full")
  IN CatchClassify("Failed to get cycle: ", << "Cycle not found: ", Show(id) >>,
       Return(r, Body("json", 1, "absent", parts)))

index_get_document(args, L) ==
  LET id == Arg(args, "documentId")
  IN CatchWrap("Failed to get document: ",
       Return(Run(<< FetchById("document", id, L.byId,
                       NotFound(<< "Document not found: ", Show(id) >>)),
                     Rel("document.relations", L.rel) >>
                  \o (IF L.second = "null" THEN << >>
                      ELSE << List("project.teams", NoData, L.main) >>)),
              Json))

\* switch (request.params.name) of src/index.ts
IndexSwitch(name, args, L) ==
  CASE name = "create_issue"    -> index_create_issue(args, L)
    [] name = "list_issues"     -> index_list_issues(args, L)
    [] name = "update_issue"    -> index_update_issue(args, L)
    [] name = "list_teams"      -> index_list_teams(args, L)
    [] name = "list_projects"   -> index_list_projects(args, L)
    [] name = "search_issues"   -> index_search_issues(args, L)
    [] name = "get_issue"       -> index_get_issue(args, L)
    [] name = "list_roadmaps"   -> index_list_roadmaps(args, L)
    [] name = "get_initiative"  -> index_get_initiative(args, L)
    [] name = "create_comment"  -> index_create_comment(args, L)
    [] name = "get_comment"     -> index_get_comment(args, L)
    [] name = "update_comment"  -> index_update_comment(args, L)
    [] name = "delete_comment"  -> index_delete_comment(args, L)
    [] name = "list_labels"     -> index_list_labels(args, L)
    [] name = "create_label"    -> index_create_label(args, L)
    [] name = "update_label"    -> index_update_label(args, L)
    [] name = "list_cycles"     -> index_list_cycles(args, L)
    [] name = "create_cycle"    -> index_create_cycle(args, L)
    [] name = "update_cycle"    -> index_update_cycle(args, L)
    [] name = "list_documents"  -> index_list_documents(args, L)
    [] name = "create_document" -> index_create_document(args, L)
    [] name = "update_document" -> index_update_document(args, L)
    [] name = "list_users"      -> index_list_users(args, L)
    [] name = "get_user"        -> index_get_user(args, L)
    [] name = "me"              -> index_me(args, L)
    [] name = "get_team"        -> index_get_team(args, L)
    [] name = "get_project"     -> index_get_project(args, L)
    [] name = "get_roadmap"     -> index_get_roadmap(args, L)
    [] name = "get_label"       -> index_get_label(args, L)
    [] name = "get_cycle"       -> index_get_cycle(args, L)
    [] name = "get_document"    -> index_get_document(args, L)
    [] OTHER -> Rejected(McpError("MethodNotFound", << "Unknown tool: ", name >>))

(***************************************************************************)
(* utils.ts: class ToolHandlers, the handlers the READ_ONLY_MODE server     *)
(* delegates to.                                                           *)
(***************************************************************************)
\* catch (error) { return { content: [...`${prefix}${error.message}`], isError: true } }
CatchReturn(prefix, r) ==
  IF r.out.kind = "throw"
    THEN [r EXCEPT !.out = [kind |-> "returnError", msg |-> << prefix >> \o r.out.msg]]
    ELSE r

\* { first: args?.first || 50 }
FirstOrDefault(a) == Obj1("first", FalsyOr(Arg(a, "first"), Num(DefaultFirst)))

\* filter.team when args.teamId is set
TeamFilter(a) == Filter(IfTruthy(Obj1("team", Arg(a, "teamId"))))

ListBody(data, L) == Body("array", PageCount(data, L.total), "absent", NoParts)

\* const entity = await client.<what>(id); if (!entity) throw not found; return entity
GetById(what, id, label, L) ==
  Return(Run(<< FetchById(what, id, L.byId, NotFound(<< label, Show(id) >>)) >>), Json)

handleCreateIssue(args, L) ==
  LET body(a) ==
        Return(Run(<< Write("createIssue", NoId,
                        Defined([title |-> Arg(a, "title"),
                                 description |-> Arg(a, "description"),
                                 teamId |-> Arg(a, "teamId"),
                                 assigneeId |-> Arg(a, "assigneeId"),
                                 priority |-> Arg(a, "priority"),
                                 labelIds |-> Arg(a, "labels")]),
                        L.main) >>),
               Json)
  IN CatchReturn("Failed to create issue: ",
       (LET v == utils_validateRequest(createIssueSchema, args)
        IN IF v.kind = "throw" THEN Rejected(v) ELSE body(v.data)))

\* filter of handleListIssues
handleListIssuesFilter(a) ==
  Merge(IfTruthy([team |-> Arg(a, "teamId"), assignee |-> Arg(a, "assigneeId"),
                  state |-> Arg(a, "status"), dueDate |-> Arg(a, "dueDate")]),
        Defined(Obj1("priority", Arg(a, "priority"))))

handleListIssues(args, L) ==
  LET body(a) ==
        LET query == Merge(FirstOrDefault(a), Filter(handleListIssuesFilter(a)))
        IN CatchWrap("Failed to list issues: ",
             Return(Run(<< List("issues", query, L.main) >>), ListBody(query, L)))
  IN
       (LET v == utils_validateRequest(schemas_listIssuesSchema, args)
        IN IF v.kind = "throw" THEN Rejected(v) ELSE body(v.data))

handleCreateComment(args, L) ==
  LET body(a) ==
        LET id == Arg(a, "issueId")
        IN Return(Run(<< FetchById("issue", id, L.byId,
                           NotFound(<< "Issue not found: ", Show(id) >>)),
                         Write("createComment", NoId,
                               [issueId |-> id, body |-> Arg(a, "body")], L.main) >>
                      \o (IF L.sub = "nodata"
                            THEN << Throw(McpError("InternalError",
                                      << "Comment was created but no comment data was returned" >>)) >>
                            ELSE << Rel("comment", L.rel) >>)),
                  Json)
  IN CatchRethrow("Failed to create comment: ",
       (LET v == utils_validateRequest(createCommentSchema, args)
        IN IF v.kind = "throw" THEN Rejected(v) ELSE body(v.data)))

handleGetComment(args, L) ==
  LET id == Arg(args, "commentId")
  IN CatchWrap("Failed to get comment: ",
       Return(Run(<< FetchById("comment", id, L.byId,
                       NotFound(<< "Comment not found: ", Show(id) >>)),
                     Rel("comment.relations", L.rel) >>),
              Json))

handleUpdateComment(args, L) ==
  LET body(a) ==
        LET id == Arg(a, "commentId")
        IN Return(Run(<< FetchById("comment", id, L.byId,
                           NotFound(<< "Comment not found: ", Show(id) >>)),
                         Write("comment.update", id,
                               Defined(Obj1("body", Arg(a, "body"))), L.main) >>),
                  Json)
  IN CatchWrap("Failed to update comment: ",
       (LET v == utils_validateRequest(updateCommentSchema, args)
        IN IF v.kind = "throw" THEN Rejected(v) ELSE body(v.data)))

handleDeleteComment(args, L) ==
  LET body(a) ==
        LET id == Arg(a, "commentId")
        IN Return(Run(<< FetchById("comment", id, L.byId,
                           NotFound(<< "Comment not found: ", Show(id) >>)),
                         Write("comment.delete", id, NoData, L.main) >>),
                  Json)
  IN CatchWrap("Failed to delete comment: ",
       (LET v == utils_validateRequest(deleteCommentSchema, args)
        IN IF v.kind = "throw" THEN Rejected(v) ELSE body(v.data)))

handleGetUser(args, L) ==
  CatchWrap("Failed to get user: ",
    GetById("user", Arg(args, "userId"), "User not found: ", L))

handleMe(args, L) ==
  CatchWrap("Failed to get authenticated user: ",
    Return(Run(<< FetchById("viewer", NoId, L.byId,
                    JsError(<< "Cannot read properties of null" >>)),
                  List("user.teams", NoData, L.main) >>),
           Json))

handleListUsers(args, L) ==
  LET body(a) ==
        Return(Run(<< List("users", FirstOrDefault(a), L.main) >>),
               ListBody(FirstOrDefault(a), L))
  IN CatchWrap("Failed to list users: ",
       (LET v == utils_validateRequest(listUsersSchema, args)
        IN IF v.kind = "throw" THEN Rejected(v) ELSE body(v.data)))

handleListTeams(args, L) ==
  LET body(a) ==
        Return(Run(<< List("teams", FirstOrDefault(a), L.main) >>),
               ListBody(FirstOrDefault(a), L))
  IN CatchWrap("Failed to list teams: ",
       (LET v == utils_validateRequest(listTeamsSchema, args)
        IN IF v.kind = "throw" THEN Rejected(v) ELSE body(v.data)))

handleGetTeam(args, L) ==
  CatchWrap("Failed to get team: ",
    GetById("team", Arg(args, "teamId"), "Team not found: ", L))

\* const filter = {}; if (args?.teamId) filter.team = ...; client.<what>({ filter, first })
ListByTeam(what, a, L) ==
  LET query == Merge(FirstOrDefault(a), TeamFilter(a))
  IN Return(Run(<< List(what, query, L.main) >>), ListBody(query, L))

handleListProjects(args, L) ==
  LET body(a) == ListByTeam("projects", a, L)
  IN CatchWrap("Failed to list projects: ",
       (LET v == utils_validateRequest(schemas_listProjectsSchema, args)
        IN IF v.kind = "throw" THEN Rejected(v) ELSE body(v.data)))

handleGetProject(args, L) ==
  CatchWrap("Failed to get project: ",
    GetById("project", Arg(args, "projectId"), "Project not found: ", L))

handleGetIssue(args, L) ==
  LET id == Arg(args, "issueId")
  IN CatchWrap("Failed to get issue: ",
       Return(Run(<< FetchById("issue", id, L.byId,
                       NotFound(<< "Issue not found: ", Show(id) >>)),
                     Rel("issue.relations", L.rel) >>
                  \o PerNode(L.total, << Rel("comment.user", L.subrel) >>)),
              Json))

handleSearchIssues(args, L) ==
  LET body(a) ==
        LET query == Merge(FirstOrDefault(a), Obj1("query", Arg(a, "query")))
        IN Return(Run(<< List("searchIssues", query, L.main) >>), ListBody(query, L))
  IN CatchWrap("Failed to search issues: ",
       (LET v == utils_validateRequest(searchIssuesSchema, args)
        IN IF v.kind = "throw" THEN Rejected(v) ELSE body(v.data)))

\* updateData of handleUpdateIssue
handleUpdateIssueData(a) ==
  Merge(IfTruthy([title |-> Arg(a, "title"), description |-> Arg(a, "description"),
                  stateId |-> Arg(a, "status"), assigneeId |-> Arg(a, "assigneeId"),
                  labelIds |-> Arg(a, "labels")]),
        Defined(Obj1("priority", Arg(a, "priority"))))

handleUpdateIssue(args, L) ==
  LET body(a) ==
        LET id == Arg(a, "issueId")
        IN Return(Run(<< FetchById("issue", id, L.byId,
                           NotFound(<< "Issue not found: ", Show(id) >>)),
                         Write("issue.update", id, handleUpdateIssueData(a), L.main) >>),
                  Json)
  IN CatchWrap("Failed to update issue: ",
       (LET v == utils_validateRequest(updateIssueSchema, args)
        IN IF v.kind = "throw" THEN Rejected(v) ELSE body(v.data)))

handleListRoadmaps(args, L) ==
  LET body(a) ==
        Return(Run(<< List("roadmaps", FirstOrDefault(a), L.main) >>),
               ListBody(FirstOrDefault(a), L))
  IN CatchWrap("Failed to list roadmaps: ",
       (LET v == utils_validateRequest(schemas_listRoadmapsSchema, args)
        IN IF v.kind = "throw" THEN Rejected(v) ELSE body(v.data)))

handleGetRoadmap(args, L) ==
  CatchWrap("Failed to get roadmap: ",
    GetById("roadmap", Arg(args, "roadmapId"), "Roadmap not found: ", L))

handleGetInitiative(args, L) ==
  CatchWrap("Failed to get initiative: ",
    GetById("initiative", Arg(args, "initiativeId"), "Initiative not found: ", L))

handleListLabels(args, L) ==
  LET body(a) == ListByTeam("issueLabels", a, L)
  IN CatchWrap("Failed to list labels: ",
       (LET v == utils_validateRequest(listLabelsSchema, args)
        IN IF v.kind = "throw" THEN Rejected(v) ELSE body(v.data)))

handleGetLabel(args, L) ==
  CatchWrap("Failed to get label: ",
    GetById("issueLabel", Arg(args, "labelId"), "Label not found: ", L))

handleCreateLabel(args, L) ==
  LET body(a) ==
        Return(Run(<< Write("createIssueLabel", NoId,
                        Defined([name |-> Arg(a, "name"), teamId |-> Arg(a, "teamId"),
                                 color |-> Arg(a, "color"),
                                 description |-> Arg(a, "description")]),
                        L.main) >>),
               Json)
  IN CatchWrap("Failed to create label: ",
       (LET v == utils_validateRequest(createLabelSchema, args)
        IN IF v.kind = "throw" THEN Rejected(v) ELSE body(v.data)))

handleUpdateLabel(args, L) ==
  LET body(a) ==
        LET id == Arg(a, "labelId")
        IN Return(Run(<< FetchById("issueLabel", id, L.byId,
                           NotFound(<< "Label not found: ", Show(id) >>)),
                         Write("label.update", id, updateLabelData(a), L.main) >>),
                  Json)
  IN CatchWrap("Failed to update label: ",
       (LET v == utils_validateRequest(updateLabelSchema, args)
        IN IF v.kind = "throw" THEN Rejected(v) ELSE body(v.data)))

handleListCycles(args, L) ==
  LET body(a) == ListByTeam("cycles", a, L)
  IN CatchWrap("Failed to list cycles: ",
       (LET v == utils_validateRequest(listCyclesSchema, args)
        IN IF v.kind = "throw" THEN Rejected(v) ELSE body(v.data)))

handleGetCycle(args, L) ==
  CatchWrap("Failed to get cycle: ",
    GetById("cycle", Arg(args, "cycleId"), "Cycle not found: ", L))

handleCreateCycle(args, L) ==
  LET body(a) ==
        Return(Run(<< Write("createCycle", NoId,
                        Defined([teamId |-> Arg(a, "teamId"), name |-> Arg(a, "name"),
                                 description |-> Arg(a, "description"),
                                 startsAt |-> DateOf(Arg(a, "startDate")),
                                 endsAt |-> DateOf(Arg(a, "endDate"))]),
                        L.main) >>),
               Json)
  IN CatchWrap("Failed to create cycle: ",
       (LET v == utils_validateRequest(createCycleSchema, args)
        IN IF v.kind = "throw" THEN Rejected(v) ELSE body(v.data)))

handleUpdateCycle(args, L) ==
  LET body(a) ==
        LET id == Arg(a, "cycleId")
        IN Return(Run(<< FetchById("cycle", id, L.byId,
                           NotFound(<< "Cycle not found: ", Show(id) >>)),
                         Write("cycle.update", id, updateCycleData(a), L.main) >>),
                  Json)
  IN CatchWrap("Failed to update cycle: ",
       (LET v == utils_validateRequest(updateCycleSchema, args)
        IN IF v.kind = "throw" THEN Rejected(v) ELSE body(v.data)))

handleListDocuments(args, L) ==
  LET body(a) == ListByTeam("documents", a, L)
  IN CatchWrap("Failed to list documents: ",
       (LET v == utils_validateRequest(listDocumentsSchema, args)
        IN IF v.kind = "throw" THEN Rejected(v) ELSE body(v.data)))

handleGetDocument(args, L) ==
  CatchWrap("Failed to get document: ",
    GetById("document", Arg(args, "documentId"), "Document not found: ", L))

handleCreateDocument(args, L) ==
  LET body(a) ==
        Return(Run(<< Write("createDocument", NoId,
                        Defined([title |-> Arg(a, "title"), content |-> Arg(a, "content"),
                                 projectId |-> Arg(a, "projectId")]),
                        L.main) >>),
               Json)
  IN CatchWrap("Failed to create document: ",
       (LET v == utils_validateRequest(createDocumentSchema, args)
        IN IF v.kind = "throw" THEN Rejected(v) ELSE body(v.data)))

handleUpdateDocument(args, L) ==
  LET body(a) ==
        LET id == Arg(a, "documentId")
        IN Return(Run(<< FetchById("document", id, L.byId,
                           NotFound(<< "Document not found: ", Show(id) >>)),
                         Write("document.update", id, updateDocumentData(a), L.main) >>),
                  Json)
  IN CatchWrap("Failed to update document: ",
       (LET v == utils_validateRequest(updateDocumentSchema, args)
        IN IF v.kind = "throw" THEN Rejected(v) ELSE body(v.data)))

\* switch (request.params.name) of the READ_ONLY_MODE server
HandlersSwitch(name, args, L) ==
  CASE name = "create_issue"    -> handleCreateIssue(args, L)
    [] name = "list_issues"     -> handleListIssues(args, L)
    [] name = "get_issue"       -> handleGetIssue(args, L)
    [] name = "search_issues"   -> handleSearchIssues(args, L)
    [] name = "update_issue"    -> handleUpdateIssue(args, L)
    [] name = "list_teams"      -> handleListTeams(args, L)
    [] name = "get_team"        -> handleGetTeam(args, L)
    [] name = "list_projects"   -> handleListProjects(args, L)
    [] name = "get_project"     -> handleGetProject(args, L)
    [] name = "list_roadmaps"   -> handleListRoadmaps(args, L)
    [] name = "get_roadmap"     -> handleGetRoadmap(args, L)
    [] name = "get_initiative"  -> handleGetInitiative(args, L)
    [] name = "create_comment"  -> handleCreateComment(args, L)
    [] name = "get_comment"     -> handleGetComment(args, L)
    [] name = "update_comment"  -> handleUpdateComment(args, L)
    [] name = "delete_comment"  -> handleDeleteComment(args, L)
    [] name = "list_labels"     -> handleListLabels(args, L)
    [] name = "get_label"       -> handleGetLabel(args, L)
    [] name = "create_label"    -> handleCreateLabel(args, L)
    [] name = "update_label"    -> handleUpdateLabel(args, L)
    [] name = "list_cycles"     -> handleListCycles(args, L)
    [] name = "get_cycle"       -> handleGetCycle(args, L)
    [] name = "create_cycle"    -> handleCreateCycle(args, L)
    [] name = "update_cycle"    -> handleUpdateCycle(args, L)
    [] name = "list_documents"  -> handleListDocuments(args, L)
    [] name = "get_document"    -> handleGetDocument(args, L)
    [] name = "create_document" -> handleCreateDocument(args, L)
    [] name = "update_document" -> handleUpdateDocument(args, L)
    [] name = "list_users"      -> handleListUsers(args, L)
    [] name = "get_user"        -> handleGetUser(args, L)
    [] name = "me"              -> handleMe(args, L)
    [] OTHER -> Rejected(JsError(<< "Unknown tool: ", name >>))

(***************************************************************************)
(* The two servers as state machines                                       *)
(***************************************************************************)
NoBody == Body("none", 0, "absent", NoParts)
NoRequest == [name |-> "", arguments |-> NoData]
NoResponse ==
  [kind |-> "none", isError |-> FALSE, text |-> << >>, code |-> "none", body |-> NoBody]

\* { content: [{ type: "text", text }], isError }
Result(isError, text, body) ==
  [kind |-> "result", isError |-> isError, text |-> text, code |-> "none", body |-> body]

\* outer try/catch of the CallTool handler of src/index.ts
IndexReply(out) ==
  IF out.kind = "throw"
    THEN Result(TRUE, << "Linear API error: " >> \o out.msg, NoBody)
    ELSE Result(FALSE, << >>, out.body)

\* the CallTool handler of the READ_ONLY_MODE server returns what the
\* ToolHandlers method returned; what it threw leaves the handler
HandlersReply(out) ==
  CASE out.kind = "throw" ->
         [kind |-> "exception", isError |-> FALSE, text |-> out.msg,
          code |-> out.code, body |-> NoBody]
    [] out.kind = "returnError" -> Result(TRUE, out.msg, NoBody)
    [] OTHER -> Result(FALSE, << >>, out.body)

ListTools == {"list_issues", "list_teams", "list_projects", "search_issues",
              "list_roadmaps", "list_labels", "list_cycles", "list_documents",
              "list_users"}

\* tools whose page or fan-out size shows in the calls they make
Sized(name) == name \in ListTools \cup {"get_label"}

\* the sizes of the connection behind the call: list_documents pages the
\* documents of the workspace themselves
Sizes(name, u) ==
  IF name = "list_documents" THEN {Len(u.documents)}
  ELSE IF Sized(name) THEN Totals ELSE {2}

Oracles(name) ==
  { [byId |-> a.byId, second |-> a.second, main |-> a.main, rel |-> a.rel,
     sub |-> a.sub, subrel |-> a.subrel, relation |-> a.relation,
     total |-> ut[2], upstream |-> ut[1]] :
      a \in {x \in Answers : Faults(x) <= MaxFaults},
      ut \in UNION { {<< u, t >> : t \in Sizes(name, u)} : u \in Upstream(name) } }

NoAnswers == Nominal @@ [total |-> 0, upstream |-> NoUpstream]

(***************************************************************************)
(* The CLI's McpClient.  It spawns the server as a child process, writes    *)
(* one JSON-RPC request per line to the child's stdin and cuts the child's  *)
(* stdout into lines.  The child's output is a sequence of bytes; a data    *)
(* event carries any non-empty prefix of the bytes not yet read.            *)
(***************************************************************************)
\* one byte of the child's output, or one character of the decoded text
Unit(t, id, kind) == [t |-> t, id |-> id, kind |-> kind]
LF == Unit("LF", 0, "")
ReplacementCharacter == Unit("U+FFFD", 0, "")

\* the lines the child may write: a JSON-RPC message with an id (0: without
\* one) carrying a result, an error or neither, or text that is not JSON;
\* its text content is plain ASCII or holds a two-byte character
Lines ==
  { [id |-> i, kind |-> k, payload |-> p] :
      i \in 0..(MaxCalls + 1), k \in {"result", "error", "neither"}, p \in {"a", "U+00E9"} }
  \cup { [id |-> 0, kind |-> "text", payload |-> p] : p \in {"a", "U+00E9"} }

\* the bytes of a line on the pipe: UTF-8, U+00E9 being C3 A9, then "\n"
utf8(line) ==
  << Unit("head", line.id, line.kind) >>
  \o (IF line.payload = "a" THEN << Unit("a", 0, "") >>
      ELSE << Unit("C3", 0, ""), Unit("A9", 0, "") >>)
  \o << LF >>

\* data.toString(): the bytes of one chunk decoded on their own; a lead byte
\* without its continuation, or a continuation without its lead, decodes to
\* U+FFFD
RECURSIVE toString(_)
toString(data) ==
  IF data = << >> THEN << >>
  ELSE IF data[1].t = "C3"
    THEN IF Len(data) >= 2 /\ data[2].t = "A9"
           THEN << Unit("U+00E9", 0, "") >> \o toString(Tail(Tail(data)))
           ELSE << ReplacementCharacter >> \o toString(Tail(data))
  ELSE IF data[1].t = "A9" THEN << ReplacementCharacter >> \o toString(Tail(data))
  ELSE << data[1] >> \o toString(Tail(data))

\* this.processedData.indexOf("\n"), 0 standing for -1
indexOf(text) ==
  IF \E i \in DOMAIN text : text[i] = LF
    THEN CHOOSE i \in DOMAIN text : text[i] = LF /\ \A j \in 1..(i - 1) : text[j] # LF
    ELSE 0

\* JSON.parse(line): the message, or a SyntaxError
JSONparse(line) ==
  IF line # << >> /\ line[1].t = "head" /\ line[1].kind # "text"
    THEN [ok |-> TRUE, id |-> line[1].id, kind |-> line[1].kind]
    ELSE [ok |-> FALSE, id |-> 0, kind |-> ""]

NoPromise == [state |-> "none", settled |-> 0]

\* resolve or reject of a promise: it takes effect on a pending promise only
settle(promise, state) ==
  [state |-> IF promise.state = "pending" THEN state ELSE promise.state,
   settled |-> promise.settled + 1]

\* the callback callTool registers: resolve on response.result, reject on
\* response.error and on a response with neither
callback(promise, message) ==
  settle(promise, IF message.kind = "result" THEN "resolved" ELSE "rejected")

\* the while loop of the data handler: cut the buffer at each "\n", parse the
\* line, call and delete the callback registered under response.id
RECURSIVE onLines(_)
onLines(c) ==
  LET newlineIndex == indexOf(c.processedData)
      line == SubSeq(c.processedData, 1, newlineIndex - 1)
      message == JSONparse(line)
      hit == message.ok /\ message.id # 0 /\ message.id \in c.responseCallbacks
  IN IF newlineIndex = 0 THEN c
     ELSE onLines(
       [processedData |-> SubSeq(c.processedData, newlineIndex + 1, Len(c.processedData)),
        processed |-> Append(c.processed, line),
        responseCallbacks |->
          IF hit THEN c.responseCallbacks \ {message.id} ELSE c.responseCallbacks,
        promises |->
          IF hit THEN [c.promises EXCEPT ![message.id] = callback(@, message)]
          ELSE c.promises,
        delivered |->
          IF hit THEN [c.delivered EXCEPT ![message.id] = Append(@, line)]
          ELSE c.delivered])

\* the client before its first call
NewClient ==
  /\ requestId = 0
  /\ responseCallbacks = {}
  /\ processedData = << >>
  /\ stdin = << >>
  /\ stdout = << >>
  /\ issued = << >>
  /\ written = << >>
  /\ processed = << >>
  /\ promises = [id \in 1..(MaxCalls + 1) |-> NoPromise]
  /\ delivered = [id \in 1..(MaxCalls + 1) |-> << >>]

Init ==
  /\ spawned = TRUE
  /\ NewClient
  /\ server \in {"index", "handlers"}
  /\ READ_ONLY_MODE \in BOOLEAN
  /\ server = "index" => ~READ_ONLY_MODE
  /\ pc = "idle"
  /\ request = NoRequest
  /\ linear = NoAnswers
  /\ calls = << >>
  /\ response = NoResponse
  /\ listed = << >>

\* a CallTool request arrives
Request ==
  /\ pc = "idle"
  /\ \E name \in ToolNames :
       \E args \in ArgsFor(DeclaredSchema(server, name)) :
         \E L \in Oracles(name) :
           /\ request' = [name |-> name, arguments |-> args]
           /\ linear' = L
  /\ pc' = "called"
  /\ calls' = << >>
  /\ response' = NoResponse
  /\ UNCHANGED << cliVars, server, READ_ONLY_MODE, listed >>

\* server.setRequestHandler(CallToolRequestSchema, ...) of src/index.ts
CallToolIndex ==
  /\ pc = "called"
  /\ server = "index"
  /\ LET r == IndexSwitch(request.name, request.arguments, linear)
     IN /\ calls' = r.calls
        /\ response' = IndexReply(r.out)
  /\ pc' = "replied"
  /\ UNCHANGED << cliVars, server, READ_ONLY_MODE, request, linear, listed >>

\* server.setRequestHandler(CallToolRequestSchema, ...) of the READ_ONLY_MODE server
CallToolHandlers ==
  /\ pc = "called"
  /\ server = "handlers"
  /\ LET r == HandlersSwitch(request.name, request.arguments, linear)
     IN /\ calls' = r.calls
        /\ response' = HandlersReply(r.out)
  /\ pc' = "replied"
  /\ UNCHANGED << cliVars, server, READ_ONLY_MODE, request, linear, listed >>

\* server.setRequestHandler(ListToolsRequestSchema, ...) of src/index.ts
ListToolsIndex ==
  /\ pc = "idle"
  /\ server = "index"
  /\ listed' = IndexTools
  /\ pc' = "replied"
  /\ UNCHANGED << cliVars, server, READ_ONLY_MODE, request, linear, calls, response >>

\* server.setRequestHandler(ListToolsRequestSchema, ...) of the READ_ONLY_MODE server
ListToolsHandlers ==
  /\ pc = "idle"
  /\ server = "handlers"
  /\ listed' = IF READ_ONLY_MODE THEN READ_TOOLS ELSE READ_TOOLS \o WRITE_TOOLS
  /\ pc' = "replied"
  /\ UNCHANGED << cliVars, server, READ_ONLY_MODE, request, linear, calls, response >>

\* the response has been sent; the server waits for the next request
Reply ==
  /\ pc = "replied"
  /\ pc' = "idle"
  /\ request' = NoRequest
  /\ linear' = NoAnswers
  /\ calls' = << >>
  /\ response' = NoResponse
  /\ listed' = << >>
  /\ UNCHANGED << cliVars, server, READ_ONLY_MODE >>

Next ==
  \/ Request
  \/ CallToolIndex
  \/ CallToolHandlers
  \/ ListToolsIndex
  \/ ListToolsHandlers
  \/ Reply

Spec == Init /\ [][Next]_vars

\* McpClient.callTool: take the next id, register the callback, write the
\* request; without a stdin the promise is rejected at once
callTool ==
  /\ requestId < MaxCalls
  /\ LET id == requestId + 1
     IN /\ requestId' = id
        /\ issued' = Append(issued, id)
        /\ responseCallbacks' = responseCallbacks \cup {id}
        /\ IF spawned
             THEN /\ stdin' = Append(stdin, id)
                  /\ promises' = [promises EXCEPT ![id] = [state |-> "pending", settled |-> 0]]
             ELSE /\ stdin' = stdin
                  /\ promises' = [promises EXCEPT ![id] = [state |-> "rejected", settled |-> 1]]
  /\ UNCHANGED << serverVars, spawned, processedData, stdout, written, processed, delivered >>

\* the child process writes one line to its stdout
childWrites ==
  /\ spawned
  /\ Len(written) < MaxLines
  /\ \E line \in Lines :
       /\ stdout' = stdout \o utf8(line)
       /\ written' = Append(written, line)
  /\ UNCHANGED << serverVars, spawned, requestId, responseCallbacks, processedData,
                  stdin, issued, processed, promises, delivered >>

\* childProcess.stdout.on("data"): a chunk of the unread bytes arrives
onData ==
  /\ spawned
  /\ \E k \in 1..Len(stdout) :
       LET data == SubSeq(stdout, 1, k)
           c == onLines([processedData |-> processedData \o toString(data),
                         processed |-> processed,
                         responseCallbacks |-> responseCallbacks,
                         promises |-> promises,
                         delivered |-> delivered])
       IN /\ stdout' = SubSeq(stdout, k + 1, Len(stdout))
          /\ processedData' = c.processedData
          /\ processed' = c.processed
          /\ responseCallbacks' = c.responseCallbacks
          /\ promises' = c.promises
          /\ delivered' = c.delivered
  /\ UNCHANGED << serverVars, spawned, requestId, stdin, issued, written >>

\* the CLI starts: the child has its pipes unless it could not be spawned
InitCli ==
  /\ spawned \in BOOLEAN
  /\ NewClient
  /\ server = "index"
  /\ READ_ONLY_MODE = FALSE
  /\ pc = "idle"
  /\ request = NoRequest
  /\ linear = NoAnswers
  /\ calls = << >>
  /\ response = NoResponse
  /\ listed = << >>

NextCli ==
  \/ callTool
  \/ childWrites
  \/ onData

SpecCli == InitCli /\ [][NextCli]_vars

(***************************************************************************)
(* Properties                                                              *)
(***************************************************************************)
\* a CallTool request has been answered
Answered == pc = "replied" /\ request # NoRequest

Mutations == SeqToSet(WRITE_TOOLS)
Writes == {i \in DOMAIN calls : calls[i].op = "write"}

ErrorResult == response.kind = "result" /\ response.isError
Success == response.kind = "result" /\ ~response.isError
Failure == response.kind = "exception" \/ ErrorResult

\* the text of the failure contains t
Says(t) == \E i \in DOMAIN response.text : response.text[i] = t

ArgumentsInvalid ==
  ZodErrors(DeclaredSchema(server, request.name), request.arguments) # << >>

\* C1: in read-only mode a call that names a mutation tool is rejected by the
\* dispatcher as an unknown tool, and no external write is made.
C1_ReadOnlyRejectsMutations ==
  (Answered /\ READ_ONLY_MODE /\ request.name \in Mutations) =>
    /\ Failure
    /\ Says("Unknown tool: ")
    /\ Writes = {}

\* C2: every error raised while a tool call is handled reaches the caller as
\* a normal response with isError true and a text; no exception leaves the
\* CallTool handler.
C2_ErrorsAreErrorResults ==
  Answered =>
    /\ response.kind = "result"
    /\ response.isError => response.text # << >>
    /\ response.isError <=> response.body = NoBody

\* C3: for every tool, arguments that violate the declared shape end in a
\* failure with no external call made.
C3_InvalidArgumentsMakeNoCall ==
  (Answered /\ request.name \in IndexCases \cup HandlerCases /\ ArgumentsInvalid) =>
    /\ Failure
    /\ calls = << >>

\* tools that change or delete an existing entity, and the argument naming it
TargetTools ==
  {"update_issue", "update_comment", "delete_comment", "update_label",
   "update_cycle", "update_document"}
TargetField(name) ==
  CASE name = "update_issue"    -> "issueId"
    [] name = "update_label"    -> "labelId"
    [] name = "update_cycle"    -> "cycleId"
    [] name = "update_document" -> "documentId"
    [] OTHER                    -> "commentId"
TargetId == Show(Arg(request.arguments, TargetField(request.name)))

FetchedNothing == calls # << >> /\ calls[1].op = "fetch" /\ calls[1].answer = "null"

\* C4: every update_* tool and delete_comment fetches its target by id before
\* any write; when the fetch returns nothing the call fails with a not-found
\* error that names the id, and no write is made.
C4_FetchBeforeWrite ==
  (Answered /\ request.name \in TargetTools) =>
    /\ \A i \in Writes :
         i > 1 /\ calls[1].op = "fetch" /\ calls[1].id = TargetId
    /\ FetchedNothing =>
         /\ Failure
         /\ IncludesNotFound(response.text)
         /\ Says(TargetId)
         /\ Writes = {}

C4_Witness ==
  /\ Answered
  /\ request.name = "update_document"
  /\ FetchedNothing
  /\ Says("Document not found: ")
  /\ Writes = {}

\* C5: a mutation tool invokes the external write at most once, exactly once
\* whenever its response is not an error, and makes no further call after a
\* write that failed.
C5_WriteAtMostOnce ==
  (Answered /\ request.name \in Mutations) =>
    /\ Cardinality(Writes) <= 1
    /\ Success => Cardinality(Writes) = 1
    /\ \A i \in Writes : Failed(calls[i].answer) => (i = Len(calls) /\ Failure)

C5_Witness ==
  /\ Answered
  /\ request.name = "create_document"
  /\ Failure
  /\ \E i \in Writes : Failed(calls[i].answer) /\ i = Len(calls)

\* the request argument an update key is taken from
ArgumentOf(key) ==
  CASE key = "stateId"  -> "status"
    [] key = "labelIds" -> "labels"
    [] key = "startsAt" -> "startDate"
    [] key = "endsAt"   -> "endDate"
    [] OTHER            -> key

UpdateTools ==
  {"update_issue", "update_comment", "update_label", "update_cycle", "update_document"}

\* C6: the update object sent upstream contains a key only if the
\* corresponding argument was provided; update_label given only labelId and
\* a colour sends only color.
C6_UpdateKeysWereProvided ==
  (Answered /\ request.name \in UpdateTools) =>
    \A i \in Writes :
      /\ \A k \in DOMAIN calls[i].data : ArgumentOf(k) \in DOMAIN request.arguments
      /\ ( /\ request.name = "update_label"
           /\ DOMAIN request.arguments = {"labelId", "color"}
           /\ Truthy(request.arguments["color"]) )
         => DOMAIN calls[i].data = {"color"}

C6_Witness ==
  /\ Answered
  /\ request.name = "update_label"
  /\ DOMAIN request.arguments = {"labelId", "color"}
  /\ Success
  /\ \E i \in Writes : DOMAIN calls[i].data = {"color"}

\* C7: get_issue of src/index.ts, when the fetch by id returns nothing,
\* answers with isError true and a text that contains "not found" and the
\* requested id, and fetches no relation.
C7_GetIssueNotFound ==
  ( /\ Answered
    /\ server = "index"
    /\ request.name = "get_issue"
    /\ FetchedNothing )
  => /\ ErrorResult
     /\ Says(" not found")
     /\ Says(Show(Arg(request.arguments, "issueId")))
     /\ Len(calls) = 1

C7_Witness ==
  /\ Answered
  /\ server = "index"
  /\ request.name = "get_issue"
  /\ FetchedNothing
  /\ ErrorResult
  /\ Says("id1")

\* handlers that await more than one fetch for one answer
FanOutTools ==
  {"list_issues", "list_projects", "search_issues", "get_issue", "list_roadmaps",
   "get_comment", "list_documents", "get_team", "get_project", "get_roadmap",
   "get_label", "get_cycle", "get_document"}

Degraded == \E k \in DOMAIN response.body.parts : response.body.parts[k] # "full"

\* C8 as stated: in a handler with fan-out, a failed fetch ends the call in
\* an error; a non-error response never has a part missing, emptied or
\* replaced by a placeholder.
C8_AnyFailedFetchFails ==
  (Answered /\ request.name \in FanOutTools) =>
    /\ (\E i \in DOMAIN calls : Failed(calls[i].answer)) => Failure
    /\ Success => ~Degraded

\* the fetches a handler wraps in a try/catch of their own
ToleratedCall(c) ==
  \/ c.what \in {"team.templates", "ProjectMembers", "CycleIssues",
                 "roadmapProject.relations"}
  \/ c.what = "roadmap.projects" /\ request.name = "get_roadmap"
  \/ c.what = "roadmap.projects" /\ c.answer = "ratelimit"

\* C8 amended: a failed fetch ends the call in an error unless it is one
\* of the embedded-part fetches the handler tolerates (team templates,
\* project members, cycle issues, a roadmap's projects and their lead and
\* teams, and in list_roadmaps a roadmap's projects when rate limited); a
\* non-error response is degraded only by such a fetch failing or
\* returning no data.
C8_OnlyToleratedFailuresPass ==
  (Answered /\ request.name \in FanOutTools) =>
    /\ (\E i \in DOMAIN calls : Failed(calls[i].answer) /\ ~ToleratedCall(calls[i]))
         => Failure
    /\ (Success /\ Degraded) =>
         \E i \in DOMAIN calls :
           /\ ToleratedCall(calls[i])
           /\ Failed(calls[i].answer) \/ calls[i].answer = "nodata"

C8_Witness ==
  /\ Answered
  /\ request.name = "get_team"
  /\ Success
  /\ "templates" \in DOMAIN response.body.parts
  /\ response.body.parts["templates"] = "empty"
  /\ \E i \in DOMAIN calls : calls[i].what = "team.templates" /\ Failed(calls[i].answer)

\* the connection query each list tool is about
MainQueries ==
  {"issues", "teams", "projects", "issueSearch", "searchIssues", "roadmaps",
   "issueLabels", "team.labels", "cycles", "team.cycles", "documents", "users"}

\* C9: every list tool passes `first` on every call of its connection
\* query: the caller's value when given, 50 when omitted.
C9_ListToolsPassFirst ==
  (Answered /\ request.name \in ListTools) =>
    \A i \in DOMAIN calls :
      (calls[i].op = "list" /\ calls[i].what \in MainQueries) =>
        /\ "first" \in DOMAIN calls[i].data
        /\ calls[i].data["first"] =
             (IF "first" \in DOMAIN request.arguments
                THEN request.arguments["first"] ELSE Num(DefaultFirst))

\* C10: list_issues called with no filter and `first` omitted requests at
\* most 50 issues and returns pagination metadata whose hasNextPage is the
\* upstream one.
C10_ListIssuesDefaultPage ==
  ( /\ Answered
    /\ request.name = "list_issues"
    /\ DOMAIN request.arguments = {}
    /\ Success )
  => /\ \A i \in DOMAIN calls :
          calls[i].what = "issues" =>
            "first" \in DOMAIN calls[i].data /\ calls[i].data["first"] = Num(DefaultFirst)
     /\ response.body.count <= DefaultFirst
     /\ response.body.pageInfo =
          (IF linear.total > DefaultFirst THEN "hasNextPage" ELSE "lastPage")

\* the request argument a filter key is built from
FilterArgumentOf(key) ==
  CASE key = "team"     -> "teamId"
    [] key = "assignee" -> "assigneeId"
    [] key = "state"    -> "status"
    [] key = "hasBlockedByRelations" -> "isBlocked"
    [] key = "hasBlockingIssues"     -> "hasBlocking"
    [] OTHER            -> key

FilterArguments ==
  {"teamId", "assigneeId", "status", "priority", "dueDate", "isBlocked", "name",
   "hasBlocking"}

\* the calls that carry a filter
Filtered == {i \in DOMAIN calls : "filter" \in DOMAIN calls[i].data}

Formatters == {"get_issue", "list_issues", "list_labels"}

\* the relation fields a formatter writes for an entity
RelationFields(name) ==
  CASE name = "get_issue"   -> DOMAIN index_getIssueDetails("present")
    [] name = "list_issues" -> DOMAIN index_formattedIssues("present")
    [] name = "list_labels" -> DOMAIN index_listLabelsFormat("present")
    [] OTHER -> {}

\* a formatted response about entities whose optional relations are absent
FormattedAbsent ==
  /\ Answered /\ Success /\ server = "index"
  /\ request.name \in Formatters
  /\ linear.relation = "absent"
  /\ response.body.count > 0

\* C12: in a formatted response about entities whose optional relations are
\* absent upstream, every relation field is present in the output with the
\* value null: not omitted, not undefined, not a placeholder string.
C12_AbsentRelationIsNull ==
  FormattedAbsent =>
    \A k \in RelationFields(request.name) :
      /\ k \in DOMAIN response.body.fields
      /\ response.body.fields[k] = "null"

\* the formatter of list_issues does write null for every absent relation
C12_ListIssuesNull ==
  (FormattedAbsent /\ request.name = "list_issues") =>
    \A k \in RelationFields("list_issues") :
      k \in DOMAIN response.body.fields /\ response.body.fields[k] = "null"

\* the call failed because the last external call answered "Rate limit exceeded"
RateLimited ==
  /\ Answered /\ Failure
  /\ calls # << >>
  /\ calls[Len(calls)].answer = "ratelimit"

\* C13: for every tool, when an external call fails with "Rate limit exceeded"
\* the caller is told the rate-limit message with its guidance (retry later or
\* use smaller page sizes), not the upstream message behind a generic prefix.
C13_RateLimitIsReported ==
  RateLimited => (Says(RateLimitText) /\ ~Says("Rate limit exceeded"))

\* the cases whose catch block tests for "Rate limit exceeded" do report it
C13_ClassifyingCatchesReport ==
  (RateLimited /\ server = "index"
     /\ request.name \in {"search_issues", "list_roadmaps", "get_roadmap", "get_cycle"})
    => (Says(RateLimitText) /\ ~Says("Rate limit exceeded"))

\* what the case or ToolHandlers method of the request threw or returned,
\* before the CallTool handler turns it into the response
Thrown ==
  IF server = "index"
    THEN IndexSwitch(request.name, request.arguments, linear).out
    ELSE HandlersSwitch(request.name, request.arguments, linear).out

\* the call failed because a fetch by id returned nothing
NotFoundCondition ==
  /\ Answered /\ Failure
  /\ calls # << >>
  /\ calls[Len(calls)].op = "fetch"
  /\ calls[Len(calls)].answer = "null"

\* the call failed because validateRequest rejected the arguments
ValidationFailed ==
  Answered /\ Failure /\ (Says("Validation error: ") \/ Says("Invalid arguments: "))

\* C14: a failure keeps its class on the way out of a handler: a by-id fetch
\* that returned nothing leaves with the not-found code, a validation failure
\* with the invalid-arguments code; the handler's own catch block does not
\* re-wrap either as a generic internal error.
C14_FailureKeepsClass ==
  /\ NotFoundCondition => (Thrown.kind = "throw" /\ Thrown.code = "MethodNotFound")
  /\ ValidationFailed =>
       (Thrown.kind = "throw" /\ Thrown.code \in {"InvalidParams", "InvalidArguments"})

\* create_comment rethrows an McpError as it is, in both servers
C14_CreateCommentKeepsClass ==
  (request.name = "create_comment") =>
    /\ NotFoundCondition => (Thrown.kind = "throw" /\ Thrown.code = "MethodNotFound")
    /\ ValidationFailed =>
         (Thrown.kind = "throw" /\ Thrown.code \in {"InvalidParams", "InvalidArguments"})

\* a ListTools request has been answered
Discovered == pc = "replied" /\ request = NoRequest

\* the names the server of this deployment returns from discovery
Discoverable ==
  SeqToSet(IF server = "index" THEN IndexTools
           ELSE IF READ_ONLY_MODE THEN READ_TOOLS ELSE READ_TOOLS \o WRITE_TOOLS)

\* C15: discovery returns READ_TOOLS in read-only mode and READ_TOOLS plus
\* WRITE_TOOLS otherwise, each name once, and a call that names a discoverable
\* tool reaches a case of the dispatcher: it is never answered "Unknown tool".
C15_DiscoveryMatchesDispatcher ==
  /\ Discovered =>
       /\ SeqToSet(listed) =
            SeqToSet(IF READ_ONLY_MODE THEN READ_TOOLS ELSE READ_TOOLS \o WRITE_TOOLS)
       /\ Cardinality(SeqToSet(listed)) = Len(listed)
  /\ (Answered /\ request.name \in Discoverable) => ~Says("Unknown tool: ")

C15_Witness ==
  /\ Discovered /\ READ_ONLY_MODE
  /\ Len(listed) = Len(READ_TOOLS)
  /\ \A i \in DOMAIN listed : listed[i] \notin Mutations

\* the names and the required names a validation schema declares
FieldNames(schema) == {schema[i].name : i \in DOMAIN schema}
RequiredNames(schema) == {schema[i].name : i \in {j \in DOMAIN schema : schema[j].required}}

\* the inputSchema discovery returns for a tool
Advertised(tool) ==
  IF server = "index" THEN index_inputSchema(tool) ELSE utils_inputSchema(tool)

\* tools the schema module of the server exports a schema for: schemas/index.ts
\* has none for list_teams and get_team, schemas.ts none for get_comment,
\* get_user and me
Registered ==
  IF server = "index" THEN IndexCases \ {"list_teams", "get_team"}
  ELSE HandlerCases \ {"get_comment", "get_user", "me"}

\* C16: for every discovered tool that has a validation schema, the argument
\* names of its inputSchema are exactly the fields of the schema, and the
\* required names are the same on both sides.
C16_InputSchemaMatchesValidation ==
  Discovered =>
    \A i \in DOMAIN listed :
      listed[i] \in Registered =>
        /\ Advertised(listed[i]).properties = FieldNames(DeclaredSchema(server, listed[i]))
        /\ Advertised(listed[i]).required = RequiredNames(DeclaredSchema(server, listed[i]))

\* the required names do agree for every discovered tool
C16_RequiredAgree ==
  Discovered =>
    \A i \in DOMAIN listed :
      listed[i] \in Registered =>
        Advertised(listed[i]).required = RequiredNames(DeclaredSchema(server, listed[i]))

\* the discovered tools whose inputSchema and schema differ
C16_Mismatched ==
  {listed[i] : i \in {j \in DOMAIN listed :
      /\ listed[j] \in Registered
      /\ Advertised(listed[j]).properties # FieldNames(DeclaredSchema(server, listed[j]))}}

\* only update_issue of src/index.ts and list_issues, list_teams of the
\* READ_ONLY_MODE server advertise fewer arguments than their schema accepts
C16_OnlyTheseDiffer ==
  Discovered =>
    C16_Mismatched \subseteq
      (IF server = "index" THEN {"update_issue"} ELSE {"list_issues", "list_teams"})

\* C17: a call that names a tool of the README list or a tool the CLI sends,
\* list_initiatives included, reaches a case of the dispatcher and is never
\* answered with the unknown-tool error.
C17_DocumentedToolsAreDispatched ==
  (Answered /\ request.name \in ReadmeTools \cup CliTools) => ~Says("Unknown tool: ")

\* every documented name other than list_initiatives does reach a case
C17_AllButInitiatives ==
  (Answered /\ request.name \in (ReadmeTools \cup CliTools) \ {"list_initiatives"})
    => ~Says("Unknown tool: ")

\* the fields of the schema the arguments of the request violate
Violated ==
  LET schema == DeclaredSchema(server, request.name)
  IN {i \in DOMAIN schema : ZodIssue(schema[i], request.arguments) # "none"}

\* where the message of validateRequest starts in the text of the failure
ValidationPrefix ==
  CHOOSE i \in DOMAIN response.text :
    response.text[i] \in {"Validation error: ", "Invalid arguments: "}

\* the entries after the prefix: "path: message" joined by ", " in
\* schemas/index.ts, the messages joined by ", " in utils.ts
ValidationEntries ==
  LET n == Len(response.text) - ValidationPrefix
  IN IF response.text[ValidationPrefix] = "Validation error: "
       THEN (n + 1) \div 4 ELSE (n + 1) \div 2

\* the violation of field f has an entry of its own in the message
Reported(f) ==
  \E i \in DOMAIN response.text :
    /\ i > ValidationPrefix
    /\ response.text[i] = ZodIssue(f, request.arguments)
    /\ (response.text[ValidationPrefix] = "Validation error: ") =>
         (response.text[i - 2] = f.name /\ response.text[i - 1] = ": ")

\* C18: when validateRequest rejects arguments that violate N fields of the
\* schema, the one error it raises has an entry for each of the N violations.
C18_AllViolationsReported ==
  ValidationFailed =>
    /\ ValidationEntries = Cardinality(Violated)
    /\ \A i \in Violated : Reported(DeclaredSchema(server, request.name)[i])

C18_Witness ==
  /\ ValidationFailed
  /\ server = "index"
  /\ Cardinality(Violated) >= 2
  /\ ValidationEntries = Cardinality(Violated)

\* the same with the second validateRequest, of utils.ts
C18_WitnessHandlers ==
  /\ ValidationFailed
  /\ server = "handlers"
  /\ Cardinality(Violated) >= 2
  /\ ValidationEntries = Cardinality(Violated)

\* the request carries a numeric priority outside 0..4
PriorityOutOfRange ==
  /\ Answered
  /\ "priority" \in DOMAIN request.arguments
  /\ request.arguments["priority"].type = "number"
  /\ (request.arguments["priority"].num < 0 \/ request.arguments["priority"].num > 4)

\* C19: create_issue, update_issue, list_issues and list_projects each reject
\* a priority below 0 or above 4 with a validation failure.
C19_PriorityRange ==
  (PriorityOutOfRange
     /\ request.name \in {"create_issue", "update_issue", "list_issues", "list_projects"})
    => ValidationFailed

\* the three issue tools do reject it, before any external call
C19_IssueToolsReject ==
  (PriorityOutOfRange /\ request.name \in {"create_issue", "update_issue", "list_issues"})
    => (ValidationFailed /\ calls = << >>)

\* the prefixes the catch blocks of the program put before an error message
OperationPrefixes ==
  { "Failed to create comment: ", "Failed to create cycle: ",
    "Failed to create document: ", "Failed to create issue: ",
    "Failed to create label: ", "Failed to delete comment: ",
    "Failed to get authenticated user: ", "Failed to get comment: ",
    "Failed to get cycle: ", "Failed to get document: ",
    "Failed to get initiative details: ", "Failed to get initiative: ",
    "Failed to get issue: ", "Failed to get label: ", "Failed to get project: ",
    "Failed to get roadmap: ", "Failed to get team: ", "Failed to get user: ",
    "Failed to list cycles: ", "Failed to list documents: ",
    "Failed to list issues: ", "Failed to list labels: ",
    "Failed to list projects: ", "Failed to list roadmaps: ",
    "Failed to list teams: ", "Failed to list users: ",
    "Failed to search issues: ", "Failed to update comment: ",
    "Failed to update cycle: ", "Failed to update document: ",
    "Failed to update issue: ", "Failed to update label: " }

\* where the text of a failure starts once the constant "Linear API error: "
\* of the outer catch of src/index.ts is set aside
TextStart ==
  IF response.text # << >> /\ response.text[1] = "Linear API error: " THEN 2 ELSE 1

\* a call of a tool the dispatcher has a case for has failed
ToolFailed ==
  /\ Answered /\ Failure
  /\ request.name \in (IF server = "index" THEN IndexCases ELSE HandlerCases)

\* C20: the text of every failing tool call begins with a prefix that names
\* the failing operation ("Failed to <operation>: "); the constant the outer
\* catch of src/index.ts puts before every text is not counted against it.
\* That the prefix is the same for every failure of a tool presupposes this.
C20_FailuresNameTheOperation ==
  ToolFailed =>
    /\ Len(response.text) >= TextStart
    /\ response.text[TextStart] \in OperationPrefixes

\* failures that leave through a wrapping catch block do carry the prefix
C20_WrappedFailuresNameTheOperation ==
  (ToolFailed /\ request.name \in {"list_teams", "list_labels", "get_label"}
     /\ calls # << >>)
    => (Len(response.text) >= TextStart /\ response.text[TextStart] \in OperationPrefixes)

\* update_issue of src/index.ts has fetched the workflow states of the team
StatesQueried ==
  /\ Answered /\ server = "index" /\ request.name = "update_issue"
  /\ \E i \in DOMAIN calls : calls[i].what = "team.states" /\ calls[i].answer = "ok"

\* the workflow states whose name equals the status when case is ignored
MatchingStates ==
  {j \in DOMAIN teamStates(linear.sub) :
     toLowerCase(teamStates(linear.sub)[j].name) =
       toLowerCase(request.arguments["status"].str)}

\* C21: update_issue called with a status: if the team has a workflow state
\* whose name equals the status ignoring letter case, the update carries that
\* state's id as stateId; if none matches, the call fails with the
\* status-not-found error and no update is issued.
C21_StatusResolution ==
  StatesQueried =>
    IF MatchingStates # {}
      THEN /\ Writes # {}
           /\ \A i \in Writes :
                /\ "stateId" \in DOMAIN calls[i].data
                /\ \E j \in MatchingStates :
                     calls[i].data["stateId"] = Str(teamStates(linear.sub)[j].id)
      ELSE /\ Failure
           /\ Says("\" not found in team workflow")
           /\ Writes = {}

C21_Witness ==
  /\ StatesQueried /\ Success
  /\ request.arguments["status"] = Str("id1")
  /\ \E i \in Writes : calls[i].data["stateId"] = Str("state1")

C21_WitnessNoMatch ==
  StatesQueried /\ MatchingStates = {} /\ Says("\" not found in team workflow")

\* update_issue was called with a status that passed validation and is not empty
StatusGiven ==
  /\ Answered /\ request.name = "update_issue"
  /\ "status" \in DOMAIN request.arguments
  /\ Truthy(request.arguments["status"])
  /\ ~ArgumentsInvalid

\* C22: update_issue called with a non-empty status never issues an update
\* that lacks a stateId: the status is resolved into the update or the call
\* fails, it is never silently dropped.
C22_StatusNeverDropped ==
  StatusGiven => \A i \in Writes : "stateId" \in DOMAIN calls[i].data

\* whenever the issue has a team the status is not dropped
C22_NotDroppedWithTeam ==
  (StatusGiven /\ ~(server = "index" /\ linear.second = "null"))
    => \A i \in Writes : "stateId" \in DOMAIN calls[i].data

\* the per-cycle issues queries of the call
CycleIssuesCalls == {i \in DOMAIN calls : calls[i].what = "CycleIssues"}

\* min(100, max(1, first)) with 50 for a first that is omitted or 0
ExpectedPageSize ==
  LET first == Arg(request.arguments, "first")
  IN IF first.type = "undefined" \/ (first.type = "number" /\ first.num = 0)
       THEN Min(100, Max(1, DefaultFirst))
       ELSE Min(100, Max(1, first.num))

\* what C23 asserts of one answered get_cycle call
CyclePageBounded ==
  /\ CycleIssuesCalls # {} => Arg(request.arguments, "includeIssues") = Bool(TRUE)
  /\ \A i \in CycleIssuesCalls :
       /\ calls[i].data["first"].type = "number"
       /\ calls[i].data["first"].num = ExpectedPageSize
       /\ calls[i].data["first"].num \in 1..100
  /\ (Success /\ Arg(request.arguments, "includeIssues") # Bool(TRUE))
       => "issues" \notin DOMAIN response.body.parts

\* C23: get_cycle issues the per-cycle issues query only when includeIssues is
\* true; the page size it sends is min(100, max(1, first)), with 50 for a
\* first that is omitted or 0, so it lies in 1..100; when includeIssues is not
\* true the response carries no issues field.
C23_CycleIssuesPage ==
  (Answered /\ request.name = "get_cycle") => CyclePageBounded

\* for arguments of the declared types the claim holds
C23_HoldsForDeclaredTypes ==
  (Answered /\ request.name = "get_cycle" /\ ~ArgumentsInvalid) => CyclePageBounded

C23_Witness ==
  /\ Answered /\ server = "index" /\ request.name = "get_cycle" /\ ~ArgumentsInvalid
  /\ Arg(request.arguments, "first") = Num(150)
  /\ \E i \in CycleIssuesCalls : calls[i].data["first"].num = 100

\* get_project of src/index.ts answered with a project
ProjectReturned ==
  /\ Answered /\ server = "index" /\ request.name = "get_project" /\ Success
  /\ "members" \in DOMAIN response.body.data

\* the membership query of the call threw or returned no members.nodes
MembersUnavailable ==
  \E i \in DOMAIN calls :
    /\ calls[i].what = "ProjectMembers"
    /\ (Failed(calls[i].answer) \/ calls[i].answer = "nodata")

Members == response.body.data["members"]

\* C24: in get_project, when the membership query throws or returns no
\* members.nodes the call still succeeds and members holds the creator when
\* present and the lead when present and different from the creator: at most
\* two entries, no id twice; when the query returns members.nodes, exactly
\* those nodes are returned.
C24_MembersFallback ==
  /\ (Answered /\ server = "index" /\ request.name = "get_project"
        /\ calls # << >> /\ calls[Len(calls)].what = "ProjectMembers")
       => ProjectReturned
  /\ ProjectReturned =>
       IF MembersUnavailable
         THEN /\ Len(Members) <= 2
              /\ \A i, j \in DOMAIN Members : Members[i] = Members[j] => i = j
              /\ SeqToSet(Members) = {linear.upstream.creator, linear.upstream.lead} \ {"none"}
              /\ (linear.upstream.creator # "none") => Members[1] = linear.upstream.creator
         ELSE Members = memberNodes

\* the creator is also the lead and the membership query failed
C24_Witness ==
  /\ ProjectReturned /\ MembersUnavailable
  /\ linear.upstream.creator = "u1" /\ linear.upstream.lead = "u1"
  /\ Members = << "u1" >>



Stats == response.body.data["issueStats"]

\* C29: in get_project's issueStats every fetched issue is counted in exactly
\* one of completed, open and canceled: total = completed + open + canceled.
C29_StatsPartition ==
  ProjectReturned => Stats.total = Stats.completed + Stats.open + Stats.canceled

\* the counts add up whenever no fetched issue carries both dates
C29_PartitionWithoutBothDates ==
  (ProjectReturned
     /\ \A i \in DOMAIN linear.upstream.issues :
          ~(linear.upstream.issues[i].completedAt /\ linear.upstream.issues[i].canceledAt))
    => Stats.total = Stats.completed + Stats.open + Stats.canceled

\* an issue with completedAt and canceledAt is counted twice
C29_CountedTwice ==
  /\ ProjectReturned
  /\ linear.upstream.issues = << [completedAt |-> TRUE, canceledAt |-> TRUE] >>
  /\ Stats = [total |-> 1, completed |-> 1, open |-> 0, canceled |-> 1]


\* get_label of src/index.ts, the server that derives issueCount, answered
\* with a label
LabelReturned ==
  Answered /\ server = "index" /\ request.name = "get_label" /\ Success

\* C25: get_label's issueCount equals the number of issues upstream that
\* reference the label, for any number of referencing issues.
C25_IssueCountIsTotal ==
  LabelReturned => response.body.count = linear.total

\* the count is right while the referencing issues fit in one default page
C25_CountWithinOnePage ==
  (LabelReturned /\ linear.total <= DefaultFirst)
    => response.body.count = linear.total

\* 51 issues reference the label and 50 are counted
C25_CountCapped ==
  /\ LabelReturned /\ linear.total = DefaultFirst + 1
  /\ response.body.count = DefaultFirst


\* list_documents of src/index.ts, called with a teamId, answered with a list
TeamDocumentsReturned ==
  /\ Answered /\ server = "index" /\ request.name = "list_documents" /\ Success
  /\ "teamId" \in DOMAIN request.arguments /\ Truthy(request.arguments["teamId"])
  /\ linear.sub # "nodata"

\* the page size the call asked for
RequestedFirst ==
  PageFirst(IF "first" \in DOMAIN request.arguments
              THEN [first |-> request.arguments["first"]] ELSE NoData)

\* the positions of the team's own documents, in upstream order
OwnDocuments ==
  SelectSeq(Positions(Len(linear.upstream.documents)),
            LAMBDA i : linear.upstream.documents[i] = "team")

Returned == SeqToSet(response.body.data["documents"])

\* every returned document belongs to the team
C26_OnlyTeamDocuments ==
  TeamDocumentsReturned => Returned \subseteq SeqToSet(OwnDocuments)

\* C26: list_documents called with a teamId returns exactly the team's
\* documents up to the page size: every returned document belongs to the
\* team, and every document among the team's first `first` documents is
\* returned.
C26_TeamDocuments ==
  TeamDocumentsReturned =>
    Returned = {OwnDocuments[k] : k \in 1..Min(RequestedFirst, Len(OwnDocuments))}

\* the team's only document lies behind the first page of the workspace
C26_BehindThePage ==
  /\ TeamDocumentsReturned
  /\ linear.upstream.documents = << "other", "other", "other", "team" >>
  /\ "first" \in DOMAIN request.arguments /\ request.arguments["first"] = Num(3)
  /\ Returned = {}


\* the team's page is returned whole when the workspace has no more documents
\* than one page
C26_HoldsWithinOnePage ==
  (TeamDocumentsReturned /\ Len(linear.upstream.documents) <= RequestedFirst)
    => Returned = {OwnDocuments[k] : k \in 1..Min(RequestedFirst, Len(OwnDocuments))}


\* the calls that list the projects of the roadmap
RoadmapProjectsCalls == {i \in DOMAIN calls : calls[i].what = "roadmap.projects"}

\* get_roadmap of src/index.ts called with includeArchived: true listed the
\* roadmap's projects
ArchivedRequested ==
  /\ Answered /\ server = "index" /\ request.name = "get_roadmap"
  /\ "includeArchived" \in DOMAIN request.arguments
  /\ request.arguments["includeArchived"] = Bool(TRUE)
  /\ RoadmapProjectsCalls # {}

ForwardsArchived(i) ==
  /\ "includeArchived" \in DOMAIN calls[i].data
  /\ calls[i].data["includeArchived"] = Bool(TRUE)

\* C27: get_roadmap called with includeArchived: true forwards
\* includeArchived = true to the roadmap's projects query whenever projects
\* are included in the response, also when includeProjects is omitted and
\* projects are included by default.
C27_ArchivedForwarded ==
  ArchivedRequested => \A i \in RoadmapProjectsCalls : ForwardsArchived(i)

\* the flag is forwarded when includeProjects: true is passed as well
C27_ForwardedWithIncludeProjects ==
  (ArchivedRequested
     /\ "includeProjects" \in DOMAIN request.arguments
     /\ request.arguments["includeProjects"] = Bool(TRUE))
    => \A i \in RoadmapProjectsCalls : ForwardsArchived(i)

\* includeProjects is omitted, projects are listed, archived ones are not asked for
C27_OmittedDropsArchived ==
  /\ ArchivedRequested
  /\ "includeProjects" \notin DOMAIN request.arguments
  /\ \E i \in RoadmapProjectsCalls : "includeArchived" \notin DOMAIN calls[i].data
  /\ Success /\ "projects" \in DOMAIN response.body.parts


\* get_issue of src/index.ts answered with the issue
IssueReturned ==
  /\ Answered /\ server = "index" /\ request.name = "get_issue" /\ Success
  /\ "attachments" \in DOMAIN response.body.data

\* C28: get_issue's response lists every attachment of the issue in
\* `attachments`, one entry per upstream attachment, whatever the
\* attachment's url.
C28_EveryAttachmentListed ==
  IssueReturned => response.body.data["attachments"] = linear.upstream.attachments

\* every attachment whose url names an image is listed, in upstream order
C28_ImagesListed ==
  IssueReturned =>
    response.body.data["attachments"]
      = SelectSeq(linear.upstream.attachments, LAMBDA u : u # "b.pdf")

\* a PDF attachment is missing from the response
C28_PdfDropped ==
  /\ IssueReturned
  /\ linear.upstream.attachments = << "a.PNG", "b.pdf" >>
  /\ response.body.data["attachments"] = << "a.PNG" >>


(***************************************************************************)
(* The CLI's McpClient                                                     *)
(***************************************************************************)
\* a line as it reads when its bytes are decoded together
Text(line) == toString(SubSeq(utf8(line), 1, Len(utf8(line)) - 1))

RECURSIVE Concat(_)
Concat(seqs) == IF seqs = << >> THEN << >> ELSE seqs[1] \o Concat(Tail(seqs))

\* the bytes that data events have carried so far
Consumed ==
  LET all == Concat([i \in DOMAIN written |-> utf8(written[i])])
  IN SubSeq(all, 1, Len(all) - Len(stdout))

\* the number of complete lines among them
CompleteLines == Cardinality({i \in DOMAIN Consumed : Consumed[i] = LF})

AnsweredIds == {id \in DOMAIN delivered : delivered[id] # << >>}

\* each call gets a distinct, strictly increasing request id starting at 1
C30_IdsCountUp == issued = [i \in 1..Len(issued) |-> i]

\* every complete line is processed exactly once, in order, as it was written
C30_Reassembled ==
  /\ Len(processed) = CompleteLines
  /\ \A i \in DOMAIN processed : processed[i] = Text(written[i])

\* a response goes to the callback registered under its id, at most once,
\* and the callback is then removed; nothing else is delivered
C30_DeliveredOnce ==
  \A id \in DOMAIN delivered :
    /\ Len(delivered[id]) <= 1
    /\ \A j \in DOMAIN delivered[id] :
         JSONparse(delivered[id][j]).ok /\ JSONparse(delivered[id][j]).id = id
    /\ delivered[id] # << >> => id \notin responseCallbacks /\ id \in SeqToSet(issued)

\* the pending-callback map holds exactly the ids sent and not yet answered
C30_PendingAreSentUnanswered ==
  responseCallbacks = SeqToSet(stdin) \ AnsweredIds

\* every call's promise settles at most once
C30_SettledOnce == \A id \in DOMAIN promises : promises[id].settled <= 1

\* C30: in the CLI's McpClient, under any interleaving of callTool calls and
\* stdout data chunks: each call gets a distinct, strictly increasing request
\* id starting at 1; output split across chunks is reassembled so each
\* complete line is processed exactly once and in order; a response is
\* delivered only to the callback registered under its id and at most once,
\* after which the callback is removed; lines that are not JSON or carry an
\* unknown id are ignored; so the pending-callback map holds exactly the ids
\* of requests sent and not yet answered, and every call's promise settles at
\* most once.
C30_McpClient ==
  /\ C30_IdsCountUp
  /\ C30_Reassembled
  /\ C30_DeliveredOnce
  /\ C30_PendingAreSentUnanswered
  /\ C30_SettledOnce

\* the lines are reassembled as written while the output is ASCII
C30_ReassembledAscii ==
  (\A i \in DOMAIN written : written[i].payload = "a") => C30_Reassembled

\* also with other output, the lines are cut where they were written and each
\* keeps its id and kind
C30_LinesCutInOrder ==
  /\ Len(processed) = CompleteLines
  /\ \A i \in DOMAIN processed : processed[i][1] = Text(written[i])[1]

\* the map holds the unanswered requests while the child has its pipes
C30_PendingWhenSpawned == spawned => C30_PendingAreSentUnanswered

\* a chunk ended inside a two-byte character: the line the handler parsed and
\* handed to the callback holds U+FFFD twice where U+00E9 was written
C30_SplitCharacter ==
  /\ written = << [id |-> 1, kind |-> "result", payload |-> "U+00E9"] >>
  /\ delivered[1] = << << Unit("head", 1, "result"),
                          ReplacementCharacter, ReplacementCharacter >> >>
  /\ promises[1].state = "resolved"

\* the child has no stdin: the call is rejected and its callback stays
C30_CallbackLeft ==
  /\ ~spawned /\ stdin = << >>
  /\ promises[1].state = "rejected" /\ 1 \in responseCallbacks

====
